---- MODULE Spec2Model ----
(***************************************************************************)
(* Control-plane protocol stack of the 3DM-API: the command dispatchers    *)
(* (Blender add-on, FreeCAD server), the socket servers' connection        *)
(* handlers and the gateway's retrying socket client.                      *)
(*                                                                         *)
(* The specifications share the module's variables:                        *)
(*   SpecDispatch  threads calling CommandDispatcher.dispatch              *)
(*   SpecServer    one connection handler (_handle_client) of a server     *)
(*   SpecClient    coroutines calling BaseSocketClient.send_command        *)
(*   SpecPool      one ConnectionPool                                      *)
(*   SpecAccept    a server's accept loop and its connections              *)
(*   SpecRegistry  a dispatcher's registry under concurrent calls          *)
(*   SpecWire      envelopes through to_json and parse_message             *)
(*   SpecStop      a server's accept loop, its handlers and stop()         *)
(*   SpecSession   the websocket sessions of the gateway                   *)
(*   SpecGateway   one websocket session and the gateway's REST handlers   *)
(*   SpecLocks     the dispatcher's and the server's structure locks       *)
(*   SpecTimer     the GUI host's command queue and its timer callback     *)
(*   SpecCalls     the same with two calls queued by one connection        *)
(*   SpecIdle      one connection whose reads time out                     *)
(*   SpecBlank     one connection whose peer sends blank lines             *)
(*   SpecLauncher  the headless launcher's main thread and its signals     *)
(* Each leaves the variables of the others unchanged.                      *)
(***************************************************************************)
EXTENDS Integers, Sequences, FiniteSets, TLC

(* ---------------------------------------------------------------------- *)
(* Bounds                                                                  *)
(* ---------------------------------------------------------------------- *)

\* dispatch calls each thread makes
MaxCalls == 1

\* send_command calls made on one client, all callers together
MaxSends == 3

\* the largest retry_attempts a client is configured with
MaxRetry == 3

\* lines the backend may have in flight towards the client
MaxInbuf == 2

\* pieces (request lines, blank lines, fragments) a peer's byte stream has
MaxLines == 2

\* the largest capacity a ConnectionPool is configured with
MaxPoolSize == 2

\* clients one pool constructs
MaxClients == 3

\* connections made to one server
MaxConns == 3

\* requests answered on one connection
MaxServed == 2

\* register, unregister, list_methods and dispatch calls made on one dispatcher
MaxOps == 4

\* connections made to a server that is being stopped
MaxStopConns == 2

\* signals delivered to the headless launcher
MaxSignals == 2

\* iterations of the launcher's main loop that are counted
MaxSleeps == 2

\* sub-messages a streaming session receives
MaxSubMessages == 2

\* rounds of work each thread of the add-on begins
MaxRounds == 1

(* ---------------------------------------------------------------------- *)
(* Program constants                                                       *)
(* ---------------------------------------------------------------------- *)

\* BaseSocketClient.__init__: retry_attempts: int = 3
DefaultRetryAttempts == 3

\* the host and port a client is configured with (the defaults of __init__)
ClientHost == "127.0.0.1"

ClientPort == 9876

(* ---------------------------------------------------------------------- *)
(* Values shared by the three parts                                        *)
(* ---------------------------------------------------------------------- *)

\* Python's None
None == "None"

\* the outcome of a call: a returned value or a raised exception
Return(v) == [kind |-> "return", value |-> v, code |-> None, detail |-> None]

Raise(c, d) == [kind |-> "raise", value |-> None, code |-> c, detail |-> d]

\* no outcome yet
Pending == [kind |-> "pending", value |-> None, code |-> None, detail |-> None]

\* common.exceptions.MethodNotFoundError(method): code and details.method
MethodNotFoundError(method) == Raise("METHOD_NOT_FOUND", method)

\* common.exceptions.ObjectNotFoundError(object_name)
ObjectNotFoundError(name) == Raise("OBJECT_NOT_FOUND", name)

(* ---------------------------------------------------------------------- *)
(* The dispatcher                                                          *)
(* ---------------------------------------------------------------------- *)

VARIABLES
    mode,            \* "headless" | "gui": bpy.app.background; "freecad"
    handlers,        \* the registry: method name -> handler or None
    pc,              \* per thread: where it is inside dispatch
    req,             \* per thread: the (method, params) of its current call
    hnd,             \* per thread: the handler its lookup returned
    mycmd,           \* per thread: index of the command it enqueued
    outcome,         \* per thread: what its last dispatch returned or raised
    ncalls,          \* per thread: dispatch calls made
    command_queue,   \* _command_queue: indices into commands, FIFO
    commands,        \* every (handler, params, result_event, result_container)
    timer_registered,\* _timer_registered
    epc,             \* the timer callback's position on the main thread
    ecmd,            \* the command the timer callback is executing
    entered,         \* per thread: a handler was entered for its current call
    active           \* threads that are inside a handler body right now

dvars == <<mode, handlers, pc, req, hnd, mycmd, outcome, ncalls,
           command_queue, commands, timer_registered, epc, ecmd, entered,
           active>>

\* the gateway's socket client (BaseSocketClient)
VARIABLES
    retry_attempts,  \* self.retry_attempts
    backend,         \* "refusing": nothing listens on (host, port); "listening"
    peer,            \* which server answers: "blender" | "freecad"
    lock_holder,     \* self._lock: the coroutine inside "async with", or None
    lock_waiters,    \* self._lock: the coroutines waiting in acquire(), FIFO
    cpc,             \* per coroutine: where it is inside send_command
    attempt,         \* per coroutine: the loop variable of the retry loop
    connected,       \* is_connected: a writer exists and is not closing
    request_id,      \* self._request_id
    inbuf,           \* lines received on the connection and not yet read
    owed,            \* ids of the requests the backend has not answered yet
    cresult,         \* per coroutine: what its last send_command gave back
    connects,        \* per coroutine: connect() calls of its current call
    sleeps,          \* per coroutine: retry sleeps of its current call
    csent,           \* per coroutine: send_command calls made
    outstanding      \* ids written on this connection and not answered to the client yet

cvars == <<retry_attempts, backend, peer, lock_holder, lock_waiters, cpc,
           attempt, connected, request_id, inbuf, owed, cresult, connects,
           sleeps, csent, outstanding>>

\* one connection handler of a socket server (_handle_client)
VARIABLES
    serverKind,      \* "blender" | "freecad": whose _handle_client runs
    dispatcher_set,  \* self.dispatcher is not None
    closed_by,       \* why the handler left its loop: "" | "eof" | "error"
    instream,        \* every byte the peer sends on the connection
    recvpos,         \* how many of them recv() has returned so far
    nrecv,           \* recv() calls that returned data
    buffer,          \* the handler's decoded text not yet split into lines
    spc,             \* where the connection handler is
    curline,         \* the line being processed
    response,        \* the response _process_message returned for it
    processed,       \* the lines handed to _process_message, in order
    slog,            \* the handler's process and send events, in order
    wire             \* what the handler has written to the socket

svars == <<serverKind, dispatcher_set, closed_by, instream, recvpos, nrecv, buffer, spc, curline,
           response, processed, slog, wire>>

\* a ConnectionPool and the clients it has constructed
VARIABLES
    pool_size,       \* self.size, the configured capacity
    pool,            \* self._pool: the idle clients, a FIFO queue
    nclients,        \* clients constructed so far (they are numbered 1, 2, ...)
    is_connected,    \* per client: BaseSocketClient.is_connected
    held,            \* clients handed out by acquire and not released yet
    last_op          \* what the last acquire or release did

pvars == <<pool_size, pool, nclients, is_connected, held, last_op>>

\* a socket server: its accept loop and the connections made to it
VARIABLES
    akind,           \* "blender" | "freecad": whose accept loop runs
    running,         \* self.running
    accepting,       \* the accept loop has not been left
    conn,            \* per connection: "none" | "pending" | "open" | "ended" |
                     \*   "aborted" | "killed"
    ended_by,        \* per connection: the failure that ended its handler
    served,          \* per connection: requests answered on it
    after_failure,   \* per connection: accepted or served after another failed
    accept_failed    \* accept() has raised an OSError other than a timeout

avars == <<akind, running, accepting, conn, ended_by, served, after_failure,
           accept_failed>>

\* a dispatcher's registry and the threads that call into it
VARIABLES
    rkind,           \* "blender" | "freecad": whose CommandDispatcher it is
    registry,        \* self._handlers / self.handlers, in insertion order
    rlock,           \* the thread holding self._lock, or None (Blender only)
    rpc,             \* per thread: where it is inside its registry call
    rop,             \* per thread: the call it is making
    nops,            \* registry calls started so far
    hist             \* the registry accesses completed so far, in order

rvars == <<rkind, registry, rlock, rpc, rop, nops, hist>>

\* one envelope on its way through the wire protocol (common/protocol.py)
VARIABLES
    wpc,             \* "made" | "line" | "parsed": how far the envelope has got
    wsrc,            \* the envelope handed to to_json, or NoMessage
    wline,           \* the wire line: the JSON text and its newline, as tokens
    wmsg,            \* what parse_message returned for the line, or NoMessage
    gout             \* what the gateway's extract_result made of the line

wvars == <<wpc, wsrc, wline, wmsg, gout>>

\* a socket server with the threads that run while it is stopped
VARIABLES
    stkind,          \* "blender" | "freecad": whose server it is
    srv_running,     \* self.running
    lsock,           \* the listening socket: "open" | "closed"
    clients,         \* self.clients: the connections listed for stop()
    apc,             \* where the accept thread is
    acur,            \* the connection accept() returned last
    csock,           \* per connection: "none" | "backlog" | "open" | "closed" |
                     \*   "refused"
    hpc,             \* per connection: where its handler thread is
    stpc,            \* per caller of stop(): where it is inside stop()
    nserved          \* per connection: it has answered a request

tvars == <<stkind, srv_running, lsock, clients, apc, acur, csock, hpc, stpc,
           nserved>>

\* the gateway's streaming sessions
VARIABLES
    kpc,             \* per session: where its coroutine is
    kclient,         \* per session: the client it constructed (0: none yet)
    knext,           \* clients constructed so far
    kout,            \* per session: send_command calls that have not returned
    kmsgs,           \* per session: sub-messages received
    klog,            \* per session: its calls, returns and relays, in order
    kactive,         \* ConnectionManager.active_connections
    kwriter,         \* per session and per REST handler: its client's
                     \*   _writer, "none" | "open"
    gpc,             \* per REST handler: where its coroutine is
    rresult          \* per REST handler: how it answers

kvars == <<kpc, kclient, knext, kout, kmsgs, klog, kactive, kwriter,
          gpc, rresult>>

\* the locks of the Blender add-on and the threads that take them
VARIABLES
    lmode,           \* "headless" | "gui": bpy.app.background or not
    lowner,          \* per lock: the thread that holds it, or "nobody"
    lscript,         \* per thread: the statements it has still to execute
    lruns,           \* per thread: rounds of work it has begun
    lheld            \* per thread: the locks it holds

lvars == <<lmode, lowner, lscript, lruns, lheld>>

\* the main thread of the headless launcher (start_server.py)
VARIABLES
    launcher_running,\* _running, the flag of the main loop
    inst_running,    \* _server_instance.running
    server_lock_held,\* _server_lock is taken
    mpc,             \* where main() is
    sigframes,       \* the frames of signal_handler on top of main(), the
                     \*   innermost last: where each one is
    nsignals,        \* signals delivered so far
    nsleeps          \* time.sleep(0.5) calls of the main loop, counted up to
                     \*   MaxSleeps

uvars == <<launcher_running, inst_running, server_lock_held, mpc, sigframes,
           nsignals, nsleeps>>

\* the wire protocol, a server being stopped, the streaming sessions, the
\* locks, the headless launcher
yvars == <<wvars, tvars, kvars, lvars, uvars>>

\* the dispatcher, the client, the connection handler, the pool, the accept
\* loop and the registry
zvars == <<dvars, cvars, svars, pvars, avars, rvars>>

\* what the actions of each later part leave unchanged
wothers == <<zvars, tvars, kvars, lvars, uvars>>

tothers == <<zvars, wvars, kvars, lvars, uvars>>

kothers == <<zvars, wvars, tvars, lvars, uvars>>

lothers == <<zvars, wvars, tvars, kvars, uvars>>

uothers == <<zvars, wvars, tvars, kvars, lvars>>

\* the parts added to the dispatcher, the client and the connection handler
xvars == <<pvars, avars, rvars, yvars>>

vars == <<dvars, cvars, svars, xvars>>

\* the connection-handler threads and the host's main thread
ConnThreads == {"conn1", "conn2"}

MainThread == "main"

Threads == ConnThreads \cup {MainThread}

Modes == {"headless", "gui", "freecad"}

\* the requests the threads issue: (method, params)
Requests ==
    { <<"ping", "{}">>,
      <<"set_active_camera", "Camera">>,
      <<"set_active_camera", "Ghost">>,
      <<"missing_method", "{}">> }

Methods == {r[1] : r \in Requests}

\* an exception that is not a TDMAPIError (ping(**{"x": 1}) raises TypeError)
UntypedError(exc) == Raise(exc, None)

UntypedExceptions == {"TypeError"}

\* what the handler registered under a name does with its parameters
HandlerCall(h, p) ==
    CASE h = "ping" -> IF p = "{}" THEN Return("pong") ELSE UntypedError("TypeError")
      [] h = "set_active_camera" ->
            IF p = "Camera" THEN Return("active_camera:Camera")
                            ELSE ObjectNotFoundError(p)
      [] OTHER -> Return(None)

\* the registry after register_all_handlers / _register_all_handlers
RegisteredAtStartup ==
    [m \in Methods |-> IF m \in {"ping", "set_active_camera"} THEN m ELSE None]

\* a fresh queue entry: the event is clear, the container holds None, None
NewCommand(h, p, t) ==
    [handler |-> h, params |-> p, caller |-> t,
     event |-> FALSE, result |-> None, error |-> Pending,
     execs |-> 0, sets |-> 0, execOn |-> None,
     timedout |-> FALSE, got |-> Pending]

\* the dispatcher of a host started in the given mode, before any request
DispatcherStarted(m) ==
    /\ mode = m
    /\ handlers = RegisteredAtStartup
    /\ pc = [t \in Threads |-> "idle"]
    /\ req = [t \in Threads |-> <<None, None>>]
    /\ hnd = [t \in Threads |-> None]
    /\ mycmd = [t \in Threads |-> 0]
    /\ outcome = [t \in Threads |-> Pending]
    /\ ncalls = [t \in Threads |-> 0]
    /\ command_queue = <<>>
    /\ commands = <<>>
    /\ timer_registered = (mode = "gui")
    /\ epc = "idle"
    /\ ecmd = 0
    /\ entered = [t \in Threads |-> FALSE]
    /\ active = {}

DispatchInit == \E m \in Modes : DispatcherStarted(m)

\* the threads that call dispatch: every connection handler; the main thread
\* only where the host has a GUI event loop running operators on it
MayDispatch(t) ==
    \/ t \in ConnThreads
    \/ t = MainThread /\ mode = "gui" /\ epc = "idle"

\* the registry lookup of dispatch: handler = self._handlers.get(method)
Lookup(method) ==
    IF method \in DOMAIN handlers THEN handlers[method] ELSE None

\* dispatch(method, params) up to the lookup: an unknown method raises
DispatchWithin(t, r, n) ==
    /\ pc[t] = "idle"
    /\ MayDispatch(t)
    /\ ncalls[t] < n
    /\ ncalls' = [ncalls EXCEPT ![t] = @ + 1]
    /\ req' = [req EXCEPT ![t] = r]
    /\ hnd' = [hnd EXCEPT ![t] = Lookup(r[1])]
    /\ IF Lookup(r[1]) = None
          THEN /\ outcome' = [outcome EXCEPT ![t] = MethodNotFoundError(r[1])]
               /\ pc' = pc
          ELSE /\ outcome' = [outcome EXCEPT ![t] = Pending]
               /\ pc' = [pc EXCEPT ![t] = "execute"]
    /\ mycmd' = [mycmd EXCEPT ![t] = 0]
    /\ entered' = [entered EXCEPT ![t] = FALSE]
    /\ UNCHANGED <<mode, handlers, command_queue, commands,
                   timer_registered, epc, ecmd, active>>
    /\ UNCHANGED <<cvars, svars, xvars>>

\* a thread makes at most MaxCalls calls
Dispatch(t, r) == DispatchWithin(t, r, MaxCalls)

\* a choice that looks at the mode only and not at the calling thread
RunsInlineByModeOnly(t) == mode \in {"freecad", "headless"}

\* _execute_threadsafe's choice (FreeCAD's dispatch always calls inline)
RunsInline(t) ==
    \/ mode = "freecad"
    \/ mode = "headless"
    \/ t = MainThread

\* the handler is entered on the calling thread
ExecuteInline(t) ==
    /\ pc[t] = "execute"
    /\ RunsInline(t)
    /\ pc' = [pc EXCEPT ![t] = "inline"]
    /\ active' = active \cup {t}
    /\ entered' = [entered EXCEPT ![t] = TRUE]
    /\ UNCHANGED <<mode, handlers, req, hnd, mycmd, outcome, ncalls,
                   command_queue, commands, timer_registered, epc, ecmd>>
    /\ UNCHANGED <<cvars, svars, xvars>>

\* the inline handler returns or raises; dispatch passes that on
InlineReturn(t) ==
    /\ pc[t] = "inline"
    /\ outcome' = [outcome EXCEPT ![t] = HandlerCall(hnd[t], req[t][2])]
    /\ pc' = [pc EXCEPT ![t] = "idle"]
    /\ active' = active \ {t}
    /\ UNCHANGED <<mode, entered, handlers, req, hnd, mycmd, ncalls,
                   command_queue, commands, timer_registered, epc, ecmd>>
    /\ UNCHANGED <<cvars, svars, xvars>>

\* _command_queue.put(...); _ensure_timer_registered(); then the wait starts
Enqueue(t) ==
    /\ pc[t] = "execute"
    /\ ~RunsInline(t)
    /\ commands' = Append(commands, NewCommand(hnd[t], req[t][2], t))
    /\ command_queue' = Append(command_queue, Len(commands) + 1)
    /\ mycmd' = [mycmd EXCEPT ![t] = Len(commands) + 1]
    /\ timer_registered' = TRUE
    /\ pc' = [pc EXCEPT ![t] = "waiting"]
    /\ UNCHANGED <<mode, entered, handlers, req, hnd, outcome, ncalls, epc, ecmd, active>>
    /\ UNCHANGED <<cvars, svars, xvars>>

\* result_event.wait(timeout=30.0) returns because the event is set
WaitSignalled(t) ==
    /\ pc[t] = "waiting"
    /\ commands[mycmd[t]].event
    /\ pc' = [pc EXCEPT ![t] = "readerr"]
    /\ UNCHANGED <<mode, entered, handlers, req, hnd, mycmd, outcome, ncalls,
                   command_queue, commands, timer_registered, epc, ecmd, active>>
    /\ UNCHANGED <<cvars, svars, xvars>>

\* a queue from which the entry of a timed-out wait has been taken back
QueueWithout(q, c) == SelectSeq(q, LAMBDA x : x # c)

\* _command_queue after a wait timed out: _execute_threadsafe goes on to read
\* the container and touches the queue no more
QueueAfterTimeout(q, c) == q

\* result_event.wait(timeout=30.0) returns because 30 s passed
WaitTimeout(t) ==
    /\ pc[t] = "waiting"
    /\ ~commands[mycmd[t]].event
    /\ commands' = [commands EXCEPT ![mycmd[t]].timedout = TRUE]
    /\ command_queue' = QueueAfterTimeout(command_queue, mycmd[t])
    /\ pc' = [pc EXCEPT ![t] = "readerr"]
    /\ UNCHANGED <<mode, entered, handlers, req, hnd, mycmd, outcome, ncalls,
                   timer_registered, epc, ecmd, active>>
    /\ UNCHANGED <<cvars, svars, xvars>>

\* what dispatch does once the wait is over, given the error slot it reads:
\* re-raise a captured error, else go on to return the result slot
AfterWait(err) == IF err.kind = "raise" THEN err ELSE Pending

\* if result_container['error'] is not None: raise it
ReadError(t) ==
    /\ pc[t] = "readerr"
    /\ LET out == AfterWait(commands[mycmd[t]].error) IN
        IF out.kind = "raise"
           THEN /\ outcome' = [outcome EXCEPT ![t] = out]
                /\ commands' = [commands EXCEPT ![mycmd[t]].got = out]
                /\ pc' = [pc EXCEPT ![t] = "idle"]
           ELSE /\ pc' = [pc EXCEPT ![t] = "readres"]
                /\ UNCHANGED <<outcome, commands>>
    /\ UNCHANGED <<mode, entered, handlers, req, hnd, mycmd, ncalls,
                   command_queue, timer_registered, epc, ecmd, active>>
    /\ UNCHANGED <<cvars, svars, xvars>>

\* return result_container['result']
ReadResult(t) ==
    /\ pc[t] = "readres"
    /\ LET out == Return(commands[mycmd[t]].result) IN
        /\ outcome' = [outcome EXCEPT ![t] = out]
        /\ commands' = [commands EXCEPT ![mycmd[t]].got = out]
    /\ pc' = [pc EXCEPT ![t] = "idle"]
    /\ UNCHANGED <<mode, entered, handlers, req, hnd, mycmd, ncalls,
                   command_queue, timer_registered, epc, ecmd, active>>
    /\ UNCHANGED <<cvars, svars, xvars>>

\* bpy.app.timers calls _process_command_queue on the main thread
Tick ==
    /\ mode = "gui"
    /\ timer_registered
    /\ epc = "idle"
    /\ pc[MainThread] = "idle"
    /\ epc' = "loop"
    /\ UNCHANGED <<mode, entered, handlers, pc, req, hnd, mycmd, outcome, ncalls,
                   command_queue, commands, timer_registered, ecmd, active>>
    /\ UNCHANGED <<cvars, svars, xvars>>

\* while not _command_queue.empty(): get_nowait(), enter the handler
TickGet ==
    /\ epc = "loop"
    /\ command_queue # <<>>
    /\ LET c == Head(command_queue) IN
        /\ ecmd' = c
        /\ commands' = [commands EXCEPT ![c].execs = @ + 1,
                                        ![c].execOn = MainThread]
        /\ entered' = IF mycmd[commands[c].caller] = c
                          THEN [entered EXCEPT ![commands[c].caller] = TRUE]
                          ELSE entered
    /\ command_queue' = Tail(command_queue)
    /\ active' = active \cup {MainThread}
    /\ epc' = "exec"
    /\ UNCHANGED <<mode, handlers, pc, req, hnd, mycmd, outcome, ncalls,
                   timer_registered>>
    /\ UNCHANGED <<cvars, svars, xvars>>

\* the handler returns or raises into result_container
TickStore ==
    /\ epc = "exec"
    /\ LET out == HandlerCall(commands[ecmd].handler, commands[ecmd].params) IN
        commands' = IF out.kind = "raise"
                       THEN [commands EXCEPT ![ecmd].error = out]
                       ELSE [commands EXCEPT ![ecmd].result = out.value]
    /\ active' = active \ {MainThread}
    /\ epc' = "set"
    /\ UNCHANGED <<mode, entered, handlers, pc, req, hnd, mycmd, outcome, ncalls,
                   command_queue, timer_registered, ecmd>>
    /\ UNCHANGED <<cvars, svars, xvars>>

\* finally: result_event.set()
TickSet ==
    /\ epc = "set"
    /\ commands' = [commands EXCEPT ![ecmd].event = TRUE, ![ecmd].sets = @ + 1]
    /\ epc' = "loop"
    /\ UNCHANGED <<mode, entered, handlers, pc, req, hnd, mycmd, outcome, ncalls,
                   command_queue, timer_registered, ecmd, active>>
    /\ UNCHANGED <<cvars, svars, xvars>>

\* a loop that would take its next command with a blocking get()
LoopEndsNever(q) == FALSE

\* while not _command_queue.empty(): the loop ends as soon as nothing is queued
LoopEnds(q) == q = <<>>

\* what the callback returns: the seconds until Blender is to call it again
TickInterval == "0.01"

\* bpy.app.timers keeps a timer whose callback returned a number and drops
\* one whose callback returned None
KeepsTimer(ret) == ret # None

\* the queue is empty: return 0.01, the timer stays registered
TickReturn ==
    /\ epc = "loop"
    /\ LoopEnds(command_queue)
    /\ epc' = "idle"
    /\ timer_registered' = KeepsTimer(TickInterval)
    /\ UNCHANGED <<mode, entered, handlers, pc, req, hnd, mycmd, outcome, ncalls,
                   command_queue, commands, ecmd, active>>
    /\ UNCHANGED <<cvars, svars, xvars>>

DispatchNext ==
    \/ \E t \in Threads, r \in Requests : Dispatch(t, r)
    \/ \E t \in Threads : ExecuteInline(t)
    \/ \E t \in Threads : InlineReturn(t)
    \/ \E t \in Threads : Enqueue(t)
    \/ \E t \in Threads : WaitSignalled(t)
    \/ \E t \in Threads : WaitTimeout(t)
    \/ \E t \in Threads : ReadError(t)
    \/ \E t \in Threads : ReadResult(t)
    \/ Tick
    \/ TickGet
    \/ TickStore
    \/ TickSet
    \/ TickReturn

(* ---------------------------------------------------------------------- *)
(* Properties of the dispatcher                                            *)
(* ---------------------------------------------------------------------- *)

\* the indices of the cross-thread commands enqueued so far
Cmds == 1..Len(commands)

\* C1: at no time are two capability handlers executing concurrently, in
\* any mode of either server
C1_HandlersMutuallyExclusive == Cardinality(active) <= 1

\* C2: a cross-thread command is executed at most once and only on the main
\* thread, its event is set at most once, and once its caller has left
\* dispatch the command has been executed once, signalled once, and the
\* caller got what the handler returned or raised
C2_CrossThreadExactlyOnce ==
    \A c \in Cmds :
        /\ commands[c].execs <= 1
        /\ commands[c].sets <= 1
        /\ commands[c].execs = 1 => commands[c].execOn = MainThread
        /\ commands[c].got.kind # "pending" =>
              /\ commands[c].execs = 1
              /\ commands[c].sets = 1
              /\ commands[c].got =
                     HandlerCall(commands[c].handler, commands[c].params)

\* C3: a caller whose wait ended by timeout leaves dispatch with a raised
\* TIMEOUT_ERROR, never with a returned value
C3_TimeoutRaisesTimeoutError ==
    \A c \in Cmds :
        (commands[c].timedout /\ commands[c].got.kind # "pending") =>
            /\ commands[c].got.kind = "raise"
            /\ commands[c].got.code = "TIMEOUT_ERROR"

\* the commands waiting in the pending queue
Queued == {command_queue[i] : i \in 1..Len(command_queue)}

\* the indices a command can get: one per call of a connection thread
CmdIds == 1..(Cardinality(ConnThreads) * MaxCalls)

\* the caller of command c read the container while c was still in the queue
\* or on its way through the handler, so before anything was stored in it
ReadBeforeStore(c) ==
    /\ commands[c].got.kind # "pending"
    /\ \/ c \in Queued
       \/ epc = "exec" /\ ecmd = c

TickStep == epc # "idle" /\ epc' # epc

\* C31: the timer callback never waits for work: whatever the queue holds it
\* can take its next step by itself; with nothing queued that step is the
\* return; it takes the commands in the order they were queued, the oldest
\* first; and every return, also after a handler raised, leaves the timer
\* registered with the interval 0.01, so that a next tick can start
C31_TickNeverBlocks ==
    /\ [](epc # "idle" => ENABLED (TickGet \/ TickStore \/ TickSet \/ TickReturn))
    /\ [][/\ (TickStep /\ epc = "loop" /\ command_queue = <<>>) => epc' = "idle"
          /\ (TickStep /\ epc = "loop" /\ command_queue # <<>>) =>
                 /\ epc' = "exec"
                 /\ ecmd' = Head(command_queue)
                 /\ command_queue' = Tail(command_queue)
                 /\ \A c \in Cmds : commands[c].execs = 0 => ecmd' <= c
          /\ (TickStep /\ epc' = "idle") =>
                 /\ command_queue = <<>>
                 /\ TickInterval = "0.01"
                 /\ timer_registered'
                 /\ pc'[MainThread] = "idle"]_vars

\* a tick has executed two commands in one call, the first of which raised,
\* and has returned
C31_Witness ==
    /\ epc = "idle"
    /\ \E c, d \in Cmds :
          /\ c < d
          /\ commands[c].error.kind = "raise" /\ commands[c].event
          /\ commands[d].event

\* a thread that is inside the cross-thread path of dispatch: it has queued
\* a command and waits for it or reads its container
CrossThread(t) == pc[t] \in {"waiting", "readerr", "readres"}

\* C32: a dispatch made on the main thread, or made in headless mode, enters
\* the handler on the calling thread and puts nothing on the queue: the main
\* thread is never inside a wait on the queue, no queued command belongs to
\* it, and in headless mode no command is ever queued
C32_MainAndHeadlessRunInline ==
    /\ [](/\ ~CrossThread(MainThread)
          /\ \A c \in Cmds : commands[c].caller # MainThread
          /\ mode = "headless" =>
                (commands = <<>> /\ \A t \in Threads : ~CrossThread(t)))
    /\ [][\A t \in Threads :
             (/\ pc[t] = "execute"
              /\ pc'[t] # "execute"
              /\ (t = MainThread \/ mode = "headless")) =>
                 /\ pc'[t] = "inline"
                 /\ entered'[t]
                 /\ active' = active \cup {t}
                 /\ commands' = commands
                 /\ command_queue' = command_queue]_vars

\* in GUI mode the main thread is inside a handler it called itself while a
\* command of a connection thread is waiting in the queue
C32_Witness ==
    /\ mode = "gui"
    /\ pc[MainThread] = "inline"
    /\ MainThread \in active
    /\ command_queue # <<>>
    /\ \E t \in ConnThreads : pc[t] = "waiting"

\* a thread that has made a dispatch call and is back from it
Returned(t) == pc[t] = "idle" /\ ncalls[t] > 0

\* C10: dispatch of a registered method returns exactly what its handler
\* returned (or raises what it raised); dispatch of an unregistered name
\* raises METHOD_NOT_FOUND with that name in details.method and enters no
\* handler
C10_DispatchReturnsHandlerValue ==
    \A t \in Threads :
        Returned(t) =>
            IF handlers[req[t][1]] # None
               THEN outcome[t] = HandlerCall(handlers[req[t][1]], req[t][2])
               ELSE /\ outcome[t] = Raise("METHOD_NOT_FOUND", req[t][1])
                    /\ hnd[t] = None
                    /\ ~entered[t]

(* ---------------------------------------------------------------------- *)
(* The gateway's socket client (BaseSocketClient)                          *)
(* ---------------------------------------------------------------------- *)


\* the coroutines of the gateway's event loop that share one client
Callers == {"k1", "k2"}

\* what send_command hands to its caller
Envelope(status, code, id) ==
    [kind |-> "envelope", status |-> status, code |-> code, id |-> id,
     details |-> {}]

\* the function ended without a return statement
ReturnedNone ==
    [kind |-> "none", status |-> None, code |-> None, id |-> 0, details |-> {}]

\* an exception left send_command
Raised(exc) ==
    [kind |-> "raise", status |-> None, code |-> exc, id |-> 0, details |-> {}]

NoResult ==
    [kind |-> "pending", status |-> None, code |-> None, id |-> 0, details |-> {}]

\* the synthetic envelopes of the two except clauses: they carry no id, and
\* their error object has the keys code and message only, no details entries
ConnectionErrorEnvelope == Envelope("error", "CONNECTION_ERROR", 0)

ParseErrorEnvelope == Envelope("error", "PARSE_ERROR", 0)

\* what the backend may put on the wire in answer to a request
ReplyKinds == {"result", "error", "garbage", "undecodable", "overlong"}

\* the lines one reply adds to the stream: Blender sends to_json(), which ends
\* in one newline; FreeCAD sends to_json() + "\n", an extra empty line
ReplyLines(k, id) ==
    IF peer = "freecad" /\ k \in {"result", "error"}
       THEN << [kind |-> k, id |-> id], [kind |-> "empty", id |-> 0] >>
       ELSE << [kind |-> k, id |-> id] >>

\* readline() + decode + json.loads on one received line
ParseResponse(line) ==
    CASE line.kind = "result" -> Envelope("success", None, line.id)
      [] line.kind = "error" -> Envelope("error", "BACKEND_ERROR", line.id)
      [] line.kind = "overlong" -> Raised("ValueError")
      [] line.kind = "undecodable" -> Raised("UnicodeDecodeError")
      [] OTHER -> ParseErrorEnvelope

\* a client as BaseSocketClient.__init__ leaves it
ClientCreated(n, b, p) ==
    /\ retry_attempts = n
    /\ backend = b
    /\ peer = p
    /\ lock_holder = None
    /\ lock_waiters = <<>>
    /\ cpc = [k \in Callers |-> "idle"]
    /\ attempt = [k \in Callers |-> 0]
    /\ connected = FALSE
    /\ request_id = 0
    /\ inbuf = <<>>
    /\ owed = <<>>
    /\ cresult = [k \in Callers |-> NoResult]
    /\ connects = [k \in Callers |-> 0]
    /\ sleeps = [k \in Callers |-> 0]
    /\ csent = [k \in Callers |-> 0]
    /\ outstanding = {}

ClientInit ==
    \E n \in 0..MaxRetry, b \in {"refusing", "listening"},
       p \in {"blender", "freecad"} : ClientCreated(n, b, p)

RECURSIVE TotalSent(_)
\* the send_command calls the callers in K have made so far
TotalSent(K) ==
    IF K = {} THEN 0
    ELSE LET k == CHOOSE x \in K : TRUE IN csent[k] + TotalSent(K \ {k})

\* asyncio.Lock.acquire takes the lock at once only when nobody holds it and
\* nobody waits for it
LockFree == lock_holder = None /\ lock_waiters = <<>>

\* send_command is called: async with self._lock
CallSendCommand(k) ==
    /\ cpc[k] = "idle"
    /\ TotalSent(Callers) < MaxSends
    /\ csent' = [csent EXCEPT ![k] = @ + 1]
    /\ cresult' = [cresult EXCEPT ![k] = NoResult]
    /\ connects' = [connects EXCEPT ![k] = 0]
    /\ sleeps' = [sleeps EXCEPT ![k] = 0]
    /\ attempt' = [attempt EXCEPT ![k] = 0]
    /\ IF LockFree
          THEN /\ lock_holder' = k
               /\ cpc' = [cpc EXCEPT ![k] = "loop"]
               /\ UNCHANGED lock_waiters
          ELSE /\ lock_waiters' = Append(lock_waiters, k)
               /\ cpc' = [cpc EXCEPT ![k] = "wait_lock"]
               /\ UNCHANGED lock_holder
    /\ UNCHANGED <<retry_attempts, backend, peer, connected, request_id,
                   inbuf, owed, outstanding>>
    /\ UNCHANGED <<dvars, svars, xvars>>

\* the lock was released and this coroutine is the first waiter
LockGranted(k) ==
    /\ cpc[k] = "wait_lock"
    /\ lock_holder = None
    /\ lock_waiters # <<>>
    /\ Head(lock_waiters) = k
    /\ lock_holder' = k
    /\ lock_waiters' = Tail(lock_waiters)
    /\ cpc' = [cpc EXCEPT ![k] = "loop"]
    /\ UNCHANGED <<retry_attempts, backend, peer, attempt, connected,
                   request_id, inbuf, owed, cresult, connects, sleeps, csent,
                   outstanding>>
    /\ UNCHANGED <<dvars, svars, xvars>>

\* leaving "async with": the lock is released, the call is over
Leave(k, res) ==
    /\ cresult' = [cresult EXCEPT ![k] = res]
    /\ cpc' = [cpc EXCEPT ![k] = "idle"]
    /\ lock_holder' = IF lock_holder = k THEN None ELSE lock_holder

\* a client that writes the Request of an attempt twice
WriteRequestTwice(k) ==
    /\ request_id' = request_id + 2
    /\ owed' = owed \o <<request_id + 1, request_id + 2>>
    /\ outstanding' = outstanding \cup {request_id + 1, request_id + 2}
    /\ cpc' = [cpc EXCEPT ![k] = "draining"]

\* self._request_id += 1; writer.write(json.dumps(request) + "\n")
WriteRequest(k) ==
    /\ request_id' = request_id + 1
    /\ owed' = Append(owed, request_id + 1)
    /\ outstanding' = outstanding \cup {request_id + 1}
    /\ cpc' = [cpc EXCEPT ![k] = "draining"]

\* the head of the retry loop: for attempt in range(self.retry_attempts)
LoopTop(k) ==
    /\ cpc[k] = "loop"
    /\ IF attempt[k] >= retry_attempts
          THEN /\ Leave(k, ReturnedNone)
               /\ UNCHANGED <<connected, request_id, inbuf, owed, outstanding>>
          ELSE IF ~connected
                  THEN /\ cpc' = [cpc EXCEPT ![k] = "connecting"]
                       /\ UNCHANGED <<lock_holder, cresult, connected,
                                      request_id, inbuf, owed, outstanding>>
                  ELSE /\ WriteRequest(k)
                       /\ UNCHANGED <<lock_holder, cresult, connected, inbuf>>
    /\ UNCHANGED <<retry_attempts, backend, peer, lock_waiters, attempt,
                   connects, sleeps, csent>>
    /\ UNCHANGED <<dvars, svars, xvars>>

\* a retry loop that sleeps after every failed attempt, the last included
AfterFailureAlwaysSleeps(a, n) == IF a < n THEN "sleep" ELSE "give_up"

\* the except clause's choice after disconnect(): sleep and retry, or give up
AfterFailure(a, n) == IF a < n - 1 THEN "sleep" ELSE "give_up"

\* an except clause that leaves the connection as it is
DisconnectSkipped(c) == c

\* await self.disconnect(): the writer is closed and self._writer is None,
\* so is_connected is False whatever it was
Disconnect(c) == FALSE

\* except (ConnectionError, asyncio.TimeoutError, OSError): disconnect, then
\* sleep retry_delay or return the CONNECTION_ERROR envelope
Failure(k) ==
    /\ connected' = Disconnect(connected)
    /\ inbuf' = <<>>
    /\ owed' = <<>>
    /\ outstanding' = {}
    /\ IF AfterFailure(attempt[k], retry_attempts) = "sleep"
          THEN /\ cpc' = [cpc EXCEPT ![k] = "sleeping"]
               /\ sleeps' = [sleeps EXCEPT ![k] = @ + 1]
               /\ UNCHANGED <<lock_holder, cresult>>
          ELSE /\ Leave(k, ConnectionErrorEnvelope)
               /\ UNCHANGED sleeps

\* await self.connect() succeeded; the request is built and written
ConnectOk(k) ==
    /\ cpc[k] = "connecting"
    /\ backend = "listening"
    /\ connects' = [connects EXCEPT ![k] = @ + 1]
    /\ connected' = TRUE
    /\ inbuf' = <<>>
    /\ WriteRequest(k)
    /\ UNCHANGED <<retry_attempts, backend, peer, lock_holder, lock_waiters,
                   attempt, cresult, sleeps, csent>>
    /\ UNCHANGED <<dvars, svars, xvars>>

\* await self.connect() returned False: raise ConnectionError
ConnectRefused(k) ==
    /\ cpc[k] = "connecting"
    /\ connects' = [connects EXCEPT ![k] = @ + 1]
    /\ Failure(k)
    /\ UNCHANGED <<retry_attempts, backend, peer, lock_waiters, attempt,
                   request_id, csent>>
    /\ UNCHANGED <<dvars, svars, xvars>>

\* await self._writer.drain() returned
DrainOk(k) ==
    /\ cpc[k] = "draining"
    /\ cpc' = [cpc EXCEPT ![k] = "reading"]
    /\ UNCHANGED <<retry_attempts, backend, peer, lock_holder, lock_waiters,
                   attempt, connected, request_id, inbuf, owed, cresult,
                   connects, sleeps, csent, outstanding>>
    /\ UNCHANGED <<dvars, svars, xvars>>

\* await self._writer.drain() raised ConnectionResetError
DrainReset(k) ==
    /\ cpc[k] = "draining"
    /\ Failure(k)
    /\ UNCHANGED <<retry_attempts, backend, peer, lock_waiters, attempt,
                   request_id, connects, csent>>
    /\ UNCHANGED <<dvars, svars, xvars>>

\* the backend answers its oldest unanswered request
BackendReply(kind) ==
    /\ connected
    /\ owed # <<>>
    /\ Len(inbuf) < MaxInbuf
    /\ inbuf' = inbuf \o ReplyLines(kind, Head(owed))
    /\ owed' = Tail(owed)
    /\ UNCHANGED <<retry_attempts, backend, peer, lock_holder, lock_waiters,
                   cpc, attempt, connected, request_id, cresult, connects,
                   sleeps, csent, outstanding>>
    /\ UNCHANGED <<dvars, svars, xvars>>

\* a client that treats a line that is not JSON like a transport failure
ReadLineRetrying(k) ==
    /\ cpc[k] = "reading"
    /\ inbuf # <<>>
    /\ IF Head(inbuf).kind \in {"garbage", "empty"}
          THEN /\ Failure(k)
               /\ UNCHANGED <<retry_attempts, backend, peer, lock_waiters,
                              attempt, request_id, connects, csent>>
          ELSE /\ inbuf' = Tail(inbuf)
               /\ outstanding' = outstanding \ {Head(inbuf).id}
               /\ Leave(k, ParseResponse(Head(inbuf)))
               /\ UNCHANGED <<retry_attempts, backend, peer, lock_waiters,
                              attempt, connected, request_id, owed, connects,
                              sleeps, csent>>
    /\ UNCHANGED <<dvars, svars, xvars>>

\* readline() returned a line: decode, json.loads, return (or raise)
ReadLine(k) ==
    /\ cpc[k] = "reading"
    /\ inbuf # <<>>
    /\ inbuf' = Tail(inbuf)
    /\ outstanding' = outstanding \ {Head(inbuf).id}
    /\ Leave(k, ParseResponse(Head(inbuf)))
    /\ UNCHANGED <<retry_attempts, backend, peer, lock_waiters, attempt,
                   connected, request_id, owed, connects, sleeps, csent>>
    /\ UNCHANGED <<dvars, svars, xvars>>

\* no line came: the read timed out, the peer closed, or the peer reset
ReadFailed(k) ==
    /\ cpc[k] = "reading"
    /\ inbuf = <<>>
    /\ Failure(k)
    /\ UNCHANGED <<retry_attempts, backend, peer, lock_waiters, attempt,
                   request_id, connects, csent>>
    /\ UNCHANGED <<dvars, svars, xvars>>

\* await asyncio.sleep(self.retry_delay) is over: the next attempt
SleepDone(k) ==
    /\ cpc[k] = "sleeping"
    /\ attempt' = [attempt EXCEPT ![k] = @ + 1]
    /\ cpc' = [cpc EXCEPT ![k] = "loop"]
    /\ UNCHANGED <<retry_attempts, backend, peer, lock_holder, lock_waiters,
                   connected, request_id, inbuf, owed, cresult, connects,
                   sleeps, csent, outstanding>>
    /\ UNCHANGED <<dvars, svars, xvars>>

ClientNext ==
    \/ \E k \in Callers : CallSendCommand(k)
    \/ \E k \in Callers : LockGranted(k)
    \/ \E k \in Callers : LoopTop(k)
    \/ \E k \in Callers : ConnectOk(k)
    \/ \E k \in Callers : ConnectRefused(k)
    \/ \E k \in Callers : DrainOk(k)
    \/ \E k \in Callers : DrainReset(k)
    \/ \E kind \in ReplyKinds : BackendReply(kind)
    \/ \E k \in Callers : ReadLine(k)
    \/ \E k \in Callers : ReadFailed(k)
    \/ \E k \in Callers : SleepDone(k)


(* ---------------------------------------------------------------------- *)
(* Properties of the socket client                                         *)
(* ---------------------------------------------------------------------- *)

\* a coroutine that is inside the body of "async with self._lock"
InBody(k) == cpc[k] \in {"loop", "connecting", "draining", "reading", "sleeping"}

\* a coroutine whose send_command call is over
Finished(k) == cpc[k] = "idle" /\ csent[k] > 0

\* C4: concurrent send_command calls on one client are serialized: at most one
\* call is inside the locked body, and at most one request written on the
\* connection is still without its response at the client
C4_OneRequestOutstanding ==
    /\ Cardinality({k \in Callers : InBody(k)}) <= 1
    /\ Cardinality(outstanding) <= 1

\* C8: against a backend that refuses every connection, a call with
\* retry_attempts = N >= 1 ends after exactly N connection attempts and N - 1
\* sleeps with the CONNECTION_ERROR envelope, and never sleeps after the
\* N-th attempt
C8_RefusedRetriesExactlyN ==
    (backend = "refusing" /\ retry_attempts >= 1) =>
        \A k \in Callers :
            /\ Finished(k) =>
                  /\ connects[k] = retry_attempts
                  /\ sleeps[k] = retry_attempts - 1
                  /\ cresult[k] = ConnectionErrorEnvelope
            /\ cpc[k] = "sleeping" =>
                  /\ connects[k] < retry_attempts
                  /\ sleeps[k] = connects[k]
            /\ sleeps[k] <= connects[k]

C8_Witness ==
    /\ backend = "refusing"
    /\ retry_attempts >= 2
    /\ \E k \in Callers :
          /\ Finished(k)
          /\ connects[k] = retry_attempts
          /\ sleeps[k] = retry_attempts - 1
          /\ cresult[k] = ConnectionErrorEnvelope

\* C9: every finished send_command call handed its caller a Result or Error
\* envelope: no exception left it and it did not end without a value
C9_AlwaysReturnsEnvelope ==
    \A k \in Callers : Finished(k) => cresult[k].kind = "envelope"
\* C17: the CONNECTION_ERROR envelope a call returns after its last attempt
\* has the configured host and the configured port in error.details
C17_ConnectionErrorNamesHostAndPort ==
    \A k \in Callers :
        (Finished(k) /\ cresult[k].kind = "envelope"
                     /\ cresult[k].code = "CONNECTION_ERROR") =>
            /\ <<"host", ClientHost>> \in cresult[k].details
            /\ <<"port", ClientPort>> \in cresult[k].details

\* C18: a call that reads a line that is not JSON ends with that step: it
\* returns the PARSE_ERROR envelope, writes no further Request, does not
\* sleep and starts no further attempt
C18_ParseErrorNotRetried ==
    [][\A k \in Callers :
          (/\ cpc[k] = "reading"
           /\ inbuf # <<>>
           /\ Head(inbuf).kind \in {"garbage", "empty"}
           /\ cpc'[k] # "reading") =>
              /\ cpc'[k] = "idle"
              /\ cresult'[k] = ParseErrorEnvelope
              /\ request_id' = request_id
              /\ sleeps'[k] = sleeps[k]
              /\ attempt'[k] = attempt[k]
              /\ connected' = connected]_vars

\* the Request of coroutine k's attempt is on the wire
Written(k) == cpc[k] \in {"draining", "reading"}

\* C35: the Requests written on a client are at most retry_attempts per call
\* made, so the backend runs a handler at most that often for one call: a
\* call writes one Request per attempt, in an attempt numbered below
\* retry_attempts, with the id one above the last id used; an attempt that
\* has written ends the call or ends in a connection-level failure that
\* disconnects and sleeps; and a second or later Request is written only
\* when every earlier attempt of the call has failed so, on a connection
\* opened anew
C35_AtMostOneRequestPerAttempt ==
    /\ [](request_id <= retry_attempts * TotalSent(Callers))
    /\ [][\A k \in Callers :
            /\ (~Written(k) /\ Written(k)') =>
                  /\ attempt[k] < retry_attempts
                  /\ sleeps[k] = attempt[k]
                  /\ request_id' = request_id + 1
                  /\ owed' = Append(owed, request_id')
                  /\ attempt[k] > 0 =>
                        (cpc[k] = "connecting" /\ ~connected /\ owed = <<>>)
            /\ (Written(k) /\ Written(k)') => request_id' = request_id
            /\ (Written(k) /\ ~Written(k)') =>
                  \/ cpc'[k] = "idle"
                  \/ /\ cpc'[k] = "sleeping"
                     /\ ~connected'
                     /\ sleeps'[k] = sleeps[k] + 1
            /\ (request_id' # request_id) =>
                  \E j \in Callers : ~Written(j) /\ Written(j)'
            /\ (attempt'[k] # attempt[k]) =>
                  \/ cpc[k] = "idle" /\ attempt'[k] = 0
                  \/ cpc[k] = "sleeping" /\ attempt'[k] = attempt[k] + 1]_vars

\* a call is waiting for the reply to the Request of its second attempt,
\* after its first attempt failed with its Request already on the wire
C35_Witness ==
    \E k \in Callers :
        /\ cpc[k] = "reading"
        /\ attempt[k] = 1
        /\ sleeps[k] = 1
        /\ connects[k] = 2
        /\ request_id = 2
        /\ owed = <<2>>

\* coroutine k takes a line from the connection and returns from its call
ReturnsLine(k) ==
    /\ cpc[k] = "reading"
    /\ cpc'[k] = "idle"
    /\ inbuf # <<>>
    /\ inbuf' = Tail(inbuf)

\* C34: the line a send_command call returns from is the server's reply to
\* the request that call has just written (it carries the id of that
\* request), never a line left on the connection by an earlier reply,
\* whichever server is the peer
C34_ReplyAnswersOwnRequest ==
    [][\A k \in Callers :
          ReturnsLine(k) =>
              /\ Head(inbuf).kind # "empty"
              /\ Head(inbuf).id = request_id
              /\ cresult'[k] = ParseResponse(Head(inbuf))]_vars

\* the step is the except clause of a connection-level failure of k's attempt
FailureStep(k) ==
    /\ cpc[k] \in {"connecting", "draining", "reading"}
    /\ \/ cpc'[k] = "sleeping"
       \/ cpc'[k] = "idle" /\ cresult'[k] = ConnectionErrorEnvelope

\* C29: a connection-level failure inside send_command (refused connect,
\* read timeout, reset, peer close) leaves the client disconnected before the
\* next attempt or the return; a Request is written only on a connection
\* that is up, and a connection comes up only through a new connect(), so no
\* Request goes to a connection on which an earlier attempt failed
C29_FailedConnectionNeverReused ==
    [][\A k \in Callers :
          /\ FailureStep(k) => (~connected' /\ request_id' = request_id)
          /\ (cpc[k] = "loop" /\ sleeps[k] > 0 /\ cpc'[k] # "loop") =>
                (cpc'[k] = "connecting" /\ request_id' = request_id)
          /\ (cpc[k] = "connecting" /\ request_id' # request_id) =>
                (~connected /\ connected' /\ connects'[k] = connects[k] + 1)
          /\ (request_id' # request_id) => connected'
          /\ (~connected /\ connected') =>
                \E j \in Callers : connects'[j] = connects[j] + 1]_vars

\* a call whose first attempt failed on a connection writes its Request
\* again, on the connection its second connect() opened
C29_Witness ==
    /\ backend = "listening"
    /\ connected
    /\ \E k \in Callers :
          /\ cpc[k] = "draining"
          /\ sleeps[k] = 1
          /\ connects[k] = 2

C18_Witness ==
    \E k \in Callers :
        /\ Finished(k)
        /\ cresult[k] = ParseErrorEnvelope
        /\ attempt[k] >= 1
        /\ sleeps[k] = attempt[k]

(* ---------------------------------------------------------------------- *)
(* The wire protocol: Request, Response, ErrorResponse, parse_message      *)
(* ---------------------------------------------------------------------- *)

\* Python values that json can write: None, a str, an int (its digits),
\* a dict (its items in insertion order)
PyNone == [ty |-> "none", s |-> "", items |-> <<>>]

PyStr(s) == [ty |-> "str", s |-> s, items |-> <<>>]

PyInt(digits) == [ty |-> "int", s |-> digits, items |-> <<>>]

PyDict(items) == [ty |-> "dict", s |-> "", items |-> items]

\* key in d
DictHas(d, key) == \E i \in 1..Len(d.items) : d.items[i][1] = key

\* d.get(key) or default: an empty or None value counts as absent
DictGetIfTruthy(d, key, default) ==
    IF /\ DictHas(d, key)
       /\ d.items[CHOOSE i \in 1..Len(d.items) : d.items[i][1] = key][2]
             \notin {PyNone, PyStr(""), PyDict(<<>>)}
       THEN d.items[CHOOSE i \in 1..Len(d.items) : d.items[i][1] = key][2]
       ELSE default

\* d[key] where the code has d.get(key, default): None for a missing key
DictGetNoDefault(d, key, default) ==
    IF DictHas(d, key)
       THEN d.items[CHOOSE i \in 1..Len(d.items) : d.items[i][1] = key][2]
       ELSE PyNone

\* d.get(key, default); "key in d" is the test, never the value's truth
DictGet(d, key, default) ==
    IF DictHas(d, key)
       THEN d.items[CHOOSE i \in 1..Len(d.items) : d.items[i][1] = key][2]
       ELSE default

\* d[key] = value: an existing key keeps its place
DictSet(d, key, value) ==
    IF DictHas(d, key)
       THEN PyDict([i \in 1..Len(d.items) |->
                       IF d.items[i][1] = key THEN <<key, value>> ELSE d.items[i]])
       ELSE PyDict(Append(d.items, <<key, value>>))

\* one token of JSON text
Tok(t, s) == [t |-> t, s |-> s]

RECURSIVE Dumps(_)
RECURSIVE DumpItems(_)
\* json.dumps(v)
Dumps(v) ==
    CASE v.ty = "none" -> <<Tok("null", "null")>>
      [] v.ty = "str" -> <<Tok("string", v.s)>>
      [] v.ty = "int" -> <<Tok("number", v.s)>>
      [] OTHER -> <<Tok("{", "{")>> \o DumpItems(v.items) \o <<Tok("}", "}")>>

\* "key": value, "key": value
DumpItems(items) ==
    IF items = <<>> THEN <<>>
    ELSE <<Tok("string", Head(items)[1]), Tok(":", ":")>> \o Dumps(Head(items)[2])
         \o (IF Tail(items) = <<>> THEN <<>>
             ELSE <<Tok(",", ",")>> \o DumpItems(Tail(items)))

RECURSIVE LoadValue(_, _)
RECURSIVE LoadItems(_, _, _)
\* the JSON value that starts at token i, and the index after it
LoadValue(toks, i) ==
    CASE toks[i].t = "null" -> [v |-> PyNone, n |-> i + 1]
      [] toks[i].t = "string" -> [v |-> PyStr(toks[i].s), n |-> i + 1]
      [] toks[i].t = "number" -> [v |-> PyInt(toks[i].s), n |-> i + 1]
      [] OTHER -> LoadItems(toks, i + 1, PyDict(<<>>))

\* the members of an object from token i up to its closing brace
LoadItems(toks, i, acc) ==
    CASE toks[i].t = "}" -> [v |-> acc, n |-> i + 1]
      [] toks[i].t = "," -> LoadItems(toks, i + 1, acc)
      [] OTHER ->
            LET member == LoadValue(toks, i + 2)
            IN  LoadItems(toks, member.n, DictSet(acc, toks[i].s, member.v))

\* the "\n" that ends a wire line
NewlineTok == Tok("nl", "\n")

\* json_str.strip(): the text without its trailing newline
StripLine(line) ==
    IF line # <<>> /\ line[Len(line)] = NewlineTok
       THEN SubSeq(line, 1, Len(line) - 1) ELSE line

\* json.loads(json_str.strip())
Loads(line) == LoadValue(StripLine(line), 1).v

\* the dataclasses
MkRequest(method, params, id) ==
    [cls |-> "Request", method |-> method, params |-> params, id |-> id]

MkResponse(result, id, status) ==
    [cls |-> "Response", result |-> result, id |-> id, status |-> status]

MkErrorResponse(code, message, details, id, status) ==
    [cls |-> "ErrorResponse", code |-> code, message |-> message,
     details |-> details, id |-> id, status |-> status]

NoMessage == [cls |-> "none"]

\* if self.id: data["id"] = self.id
WithTruthyId(data, id) ==
    IF id \notin {PyNone, PyStr("")} THEN DictSet(data, "id", id) ELSE data

\* if self.id is not None: data["id"] = self.id
WithId(data, id) == IF id # PyNone THEN DictSet(data, "id", id) ELSE data

\* Request.to_json, Response.to_json, ErrorResponse.to_json
MessageToJson(e) ==
    LET data ==
          CASE e.cls = "Request" ->
                 PyDict(<< <<"method", e.method>>, <<"params", e.params>> >>)
            [] e.cls = "Response" ->
                 PyDict(<< <<"status", e.status>>, <<"result", e.result>> >>)
            [] OTHER ->
                 PyDict(<< <<"status", e.status>>,
                           <<"error", PyDict(<< <<"code", e.code>>,
                                                <<"message", e.message>>,
                                                <<"details", e.details>> >>)>> >>)
    IN  Dumps(WithId(data, e.id)) \o <<NewlineTok>>

\* Request.from_json
RequestFromJson(line) ==
    LET data == Loads(line)
    IN  MkRequest(DictGet(data, "method", PyStr("")),
                  DictGet(data, "params", PyDict(<<>>)),
                  DictGet(data, "id", PyNone))

\* Response.from_json
ResponseFromJson(line) ==
    LET data == Loads(line)
    IN  MkResponse(DictGet(data, "result", PyNone),
                   DictGet(data, "id", PyNone),
                   DictGet(data, "status", PyStr("success")))

\* ErrorResponse.from_json
ErrorResponseFromJson(line) ==
    LET data == Loads(line)
        error == DictGet(data, "error", PyDict(<<>>))
    IN  MkErrorResponse(DictGet(error, "code", PyStr("UNKNOWN")),
                        DictGet(error, "message", PyStr("Unknown error")),
                        DictGet(error, "details", PyDict(<<>>)),
                        DictGet(data, "id", PyNone),
                        DictGet(data, "status", PyStr("error")))

\* a parse_message that asks for a method that is not empty
IsRequestIfMethodTruthy(data) ==
    DictGetIfTruthy(data, "method", PyNone) # PyNone

\* "method" in data
IsRequest(data) == DictHas(data, "method")

\* parse_message(json_str)
ParseMessage(line) ==
    LET data == Loads(line)
    IN  IF IsRequest(data) THEN RequestFromJson(line)
        ELSE IF DictGet(data, "status", PyNone) = PyStr("error")
                THEN ErrorResponseFromJson(line)
        ELSE ResponseFromJson(line)

\* the gateway has made nothing of the line yet
NoOutcome == [kind |-> "none"]

\* raise HTTPException(status_code=500, detail=...)
HTTPException(detail) == [kind |-> "HTTPException", body |-> detail]

\* extract_result(response) of the REST routes
ExtractResult(reply) ==
    IF DictHas(reply, "error")
       THEN LET error == DictGet(reply, "error", PyNone)
            IN  HTTPException(PyDict(<<
                    <<"code", DictGet(error, "code", PyStr("ERROR"))>>,
                    <<"message", DictGet(error, "message", PyStr("Unknown error"))>> >>))
       ELSE [kind |-> "return", body |-> DictGet(reply, "result", reply)]

\* return {"status": "success", "result": extract_result(response)}
RouteReturn(reply) ==
    LET r == ExtractResult(reply)
    IN  IF r.kind = "HTTPException" THEN r
        ELSE [kind |-> "return",
              body |-> PyDict(<< <<"status", PyStr("success")>>,
                                 <<"result", r.body>> >>)]

\* the ids, methods, params, results, codes, messages and details envelopes of
\* the model carry
WireIds == {PyNone, PyStr(""), PyStr("1"), PyInt("1")}

WireMethods == {PyStr("ping"), PyStr("")}

WireParams == {PyDict(<<>>), PyDict(<< <<"x", PyInt("1")>> >>),
               PyDict(<< <<"status", PyStr("error")>> >>)}

WireResults == {PyNone, PyStr("pong"), PyStr("error"), PyDict(<<>>),
                PyDict(<< <<"method", PyStr("ping")>> >>),
                PyDict(<< <<"status", PyStr("error")>>, <<"id", PyNone>> >>)}

WireCodes == {PyStr("METHOD_NOT_FOUND"), PyStr("")}

WireMessages == {PyStr("Unknown method: x"), PyStr("")}

WireDetails == {PyDict(<<>>), PyDict(<< <<"method", PyStr("x")>> >>)}

\* the envelopes the servers and the client construct: a Response keeps its
\* default status "success", an ErrorResponse its default status "error"
WireEnvelopes ==
    {MkRequest(m, p, i) : m \in WireMethods, p \in WireParams, i \in WireIds}
    \cup {MkResponse(r, i, PyStr("success")) : r \in WireResults, i \in WireIds}
    \cup {MkErrorResponse(c, m, d, i, PyStr("error")) :
             c \in WireCodes, m \in WireMessages, d \in WireDetails, i \in WireIds}

\* JSON object lines a peer may send that no to_json wrote: any of the keys
\* method and status present or absent, with these values
ForeignMethods == {PyStr("ping"), PyStr(""), PyNone}

ForeignStatuses == {PyStr("error"), PyStr("success"), PyStr("ERROR"), PyNone}

ForeignObjects ==
    LET with_(d, key, vals) == {d} \cup {DictSet(d, key, v) : v \in vals}
        base == {PyDict(<<>>), PyDict(<< <<"id", PyStr("4")>> >>),
                 PyDict(<< <<"result", PyStr("pong")>> >>),
                 PyDict(<< <<"error", PyDict(<< <<"code", PyStr("E")>> >>)>> >>)}
    IN  UNION {with_(d, "status", ForeignStatuses) :
                  d \in UNION {with_(b, "method", ForeignMethods) : b \in base}}

\* no envelope is on its way
WireParked ==
    /\ wpc = "parked"
    /\ wsrc = NoMessage
    /\ wline = <<>>
    /\ wmsg = NoMessage
    /\ gout = NoOutcome

\* an envelope has been constructed, or a line has arrived from a peer
WireInit ==
    /\ \/ /\ wpc = "made"
          /\ wsrc \in WireEnvelopes
          /\ wline = <<>>
       \/ /\ wpc = "line"
          /\ wsrc = NoMessage
          /\ wline \in {Dumps(d) \o <<NewlineTok>> : d \in ForeignObjects}
    /\ wmsg = NoMessage
    /\ gout = NoOutcome

\* line = envelope.to_json()
ToJsonCall ==
    /\ wpc = "made"
    /\ wline' = MessageToJson(wsrc)
    /\ wpc' = "line"
    /\ UNCHANGED <<wsrc, wmsg, gout>>
    /\ UNCHANGED wothers

\* message = parse_message(line)
ParseMessageCall ==
    /\ wpc = "line"
    /\ wmsg' = ParseMessage(wline)
    /\ wpc' = "parsed"
    /\ UNCHANGED <<wsrc, wline, gout>>
    /\ UNCHANGED wothers

\* the client has read the line as the backend's reply and returned
\* json.loads of it; the route calls extract_result(response)
ExtractResultCall ==
    /\ wpc = "line"
    /\ gout' = RouteReturn(Loads(wline))
    /\ wpc' = "extracted"
    /\ UNCHANGED <<wsrc, wline, wmsg>>
    /\ UNCHANGED wothers

WireNext ==
    \/ ToJsonCall
    \/ ParseMessageCall
    \/ ExtractResultCall

(* ---------------------------------------------------------------------- *)
(* Properties of the wire protocol                                         *)
(* ---------------------------------------------------------------------- *)

\* C22: an envelope serialized to its wire line and parsed back is an
\* envelope of the same kind, equal field for field, for every id including
\* None
C22_RoundTripYieldsEqualEnvelope ==
    (wpc = "parsed" /\ wsrc # NoMessage) => wmsg = wsrc

C22_Witness ==
    /\ wpc = "parsed"
    /\ wsrc.cls = "Response"
    /\ wsrc.id = PyStr("")
    /\ wsrc.result = PyDict(<< <<"method", PyStr("ping")>> >>)
    /\ wmsg.cls = "Response"

\* C23: parse_message returns a Request for a line with a method key, else an
\* ErrorResponse for a line whose status equals "error", else a Response
C23_ParseMessageClassification ==
    wpc = "parsed" =>
        LET data == Loads(wline) IN
        wmsg.cls = IF DictHas(data, "method") THEN "Request"
                   ELSE IF DictGet(data, "status", PyNone) = PyStr("error")
                           THEN "ErrorResponse"
                   ELSE "Response"

\* C26: for a backend reply that is an Error envelope the gateway's failure
\* carries the Error's code, message and details unchanged; for a Result it
\* returns {status: "success", result} with the Result's result value
C26_GatewayPreservesError ==
    wpc = "extracted" =>
        /\ wsrc.cls = "ErrorResponse" =>
              /\ gout.kind = "HTTPException"
              /\ DictGet(gout.body, "code", PyNone) = wsrc.code
              /\ DictGet(gout.body, "message", PyNone) = wsrc.message
              /\ DictGet(gout.body, "details", PyNone) = wsrc.details
        /\ wsrc.cls = "Response" =>
              gout = [kind |-> "return",
                      body |-> PyDict(<< <<"status", PyStr("success")>>,
                                         <<"result", wsrc.result>> >>)]

C23_Witness ==
    /\ wpc = "parsed"
    /\ wsrc = NoMessage
    /\ DictHas(Loads(wline), "method")
    /\ DictGet(Loads(wline), "method", PyStr("x")) = PyNone
    /\ DictGet(Loads(wline), "status", PyNone) = PyStr("error")
    /\ wmsg.cls = "Request"

(* ---------------------------------------------------------------------- *)
(* One connection handler of a socket server (_handle_client)              *)
(* ---------------------------------------------------------------------- *)

\* Bytes on the wire. "P", "M", "S", "N" stand for the bytes of a JSON object
\* up to its closing brace ("}"): a ping request with id 1, a missing_method
\* request with id 2, a set_active_camera request with id 3 whose name
\* parameter follows, and an object with id 4 and no method key. "A" is the
\* JSON text [], "X" bytes that are not JSON, "C3" "A9" the two bytes of the
\* UTF-8 encoding of U+00E9, " " a blank and "\n" the line terminator.
PingLine == <<"P", "}", "\n">>

\* a ping request with id 5 and params {"x": 1}, which ping() does not accept
BadParamsLine == <<"Q", "}", "\n">>

MissingLine == <<"M", "}", "\n">>

CameraLine == <<"S", "C3", "A9", "}", "\n">>

NoMethodLine == <<"N", "}", "\n">>

NonObjectLine == <<"A", "\n">>

GarbageLine == <<"X", "\n">>

BlankLine == <<" ", "\n">>

\* the first bytes of a request whose rest has not been sent
Fragment == <<"P">>

LineKinds == {PingLine, BadParamsLine, MissingLine, CameraLine, NoMethodLine, NonObjectLine,
              GarbageLine, BlankLine, Fragment}

RECURSIVE StreamsOf(_)
\* the byte streams made of at most n of these pieces
StreamsOf(n) ==
    IF n = 0 THEN {<<>>}
    ELSE StreamsOf(n - 1) \cup {s \o l : s \in StreamsOf(n - 1), l \in LineKinds}

RECURSIVE WellFormed(_)
\* bytes.decode('utf-8') succeeds on the chunk
WellFormed(chunk) ==
    IF chunk = <<>> THEN TRUE
    ELSE IF Head(chunk) = "C3"
            THEN /\ Len(chunk) >= 2
                 /\ chunk[2] = "A9"
                 /\ WellFormed(SubSeq(chunk, 3, Len(chunk)))
    ELSE IF Head(chunk) = "A9" THEN FALSE
    ELSE WellFormed(Tail(chunk))

RECURSIVE Decode(_)
\* bytes.decode('utf-8') of a well-formed chunk: the text, one item per character
Decode(chunk) ==
    IF chunk = <<>> THEN <<>>
    ELSE IF Head(chunk) = "C3" /\ Len(chunk) >= 2
            THEN <<"U+E9">> \o Decode(SubSeq(chunk, 3, Len(chunk)))
    ELSE <<Head(chunk)>> \o Decode(Tail(chunk))

\* '\n' in buffer
HasNewline(buf) == \E i \in 1..Len(buf) : buf[i] = "\n"

FirstNewline(buf) ==
    CHOOSE i \in 1..Len(buf) :
        buf[i] = "\n" /\ \A j \in 1..(i - 1) : buf[j] # "\n"

\* a split at the last newline instead of the first (rsplit)
SplitAtLastNewline(buf) ==
    LET last == CHOOSE i \in 1..Len(buf) :
                    buf[i] = "\n" /\ \A j \in (i + 1)..Len(buf) : buf[j] # "\n"
    IN  << SubSeq(buf, 1, last - 1), SubSeq(buf, last + 1, Len(buf)) >>

\* line, buffer = buffer.split('\n', 1)
SplitLine(buf) ==
    << SubSeq(buf, 1, FirstNewline(buf) - 1),
       SubSeq(buf, FirstNewline(buf) + 1, Len(buf)) >>

RECURSIVE LStrip(_)
LStrip(l) == IF l # <<>> /\ Head(l) = " " THEN LStrip(Tail(l)) ELSE l

RECURSIVE RStrip(_)
RStrip(l) ==
    IF l # <<>> /\ l[Len(l)] = " " THEN RStrip(SubSeq(l, 1, Len(l) - 1)) ELSE l

\* str.strip()
Strip(l) == RStrip(LStrip(l))

\* a handler that takes every line for a request
IsBlankNever(l) == FALSE

\* not line.strip(): the line is empty or whitespace only
IsBlank(l) == Strip(l) = <<>>

\* the JSON text of "N" "}": an object with the one key id
NoMethodJson == Dumps(PyDict(<< <<"id", PyStr("4")>> >>))

\* a str or None as the connection handler's model writes it
PyText(v) == IF v.ty = "str" THEN v.s ELSE None

\* json.loads(json_str.strip()) and the three data.get calls of from_json
ParseRequest(l) ==
    LET t == Strip(l)
        req_(m, p, i) == [shape |-> "object", method |-> m, params |-> p, id |-> i]
    IN  CASE t = <<"P", "}">> -> req_("ping", "{}", "1")
          [] t = <<"Q", "}">> -> req_("ping", "x=1", "5")
          [] t = <<"M", "}">> -> req_("missing_method", "{}", "2")
          [] t = <<"S", "}">> -> req_("set_active_camera", "Camera", "3")
          [] t = <<"S", "U+E9", "}">> -> req_("set_active_camera", "U+E9", "3")
          [] t = <<"N", "}">> ->
                LET q == RequestFromJson(NoMethodJson)
                IN  req_(PyText(q.method),
                         IF q.params = PyDict(<<>>) THEN "{}" ELSE PyText(q.params),
                         PyText(q.id))
          [] t = <<"A">> ->
                [shape |-> "nonobject", method |-> None, params |-> None, id |-> None]
          [] OTHER ->
                [shape |-> "malformed", method |-> None, params |-> None, id |-> None]

\* Response(result=..., id=...) and ErrorResponse(code=..., id=...)
ResultEnvelope(value, id) ==
    [tok |-> "env", status |-> "success", value |-> value, code |-> None,
     detail |-> None, id |-> id]

ErrorEnvelope(code, detail, id) ==
    [tok |-> "env", status |-> "error", value |-> None, code |-> code,
     detail |-> detail, id |-> id]

NewlineByte == [tok |-> "nl", status |-> None, value |-> None, code |-> None,
                detail |-> None, id |-> None]

NoEnvelope == [tok |-> "none", status |-> None, value |-> None, code |-> None,
               detail |-> None, id |-> None]

\* to_json(): json.dumps(data) + "\n"
ToJson(env) == <<env, NewlineByte>>

\* dispatcher.dispatch as the connection handler sees it: the handler's value,
\* the handler's exception, or MethodNotFoundError
ServerDispatch(method, params) ==
    IF Lookup(method) = None THEN MethodNotFoundError(method)
    ELSE HandlerCall(Lookup(method), params)

\* an envelope that reports neither the exception's code nor EXECUTION_ERROR
ErrorCodeAlwaysInternal(res) == "INTERNAL_ERROR"

\* except TDMAPIError as e: code=e.code; except Exception: code="EXECUTION_ERROR"
ErrorCodeFor(res) ==
    IF res.code \in UntypedExceptions THEN "EXECUTION_ERROR" ELSE res.code

\* a reply that leaves the id out
ReplyIdDropped(r) == None

\* id=request.id
ReplyId(r) == r.id

\* _process_message(message): the envelope it returns
ProcessMessage(kind, l) ==
    LET r == ParseRequest(l) IN
    CASE r.shape = "malformed" -> ErrorEnvelope("PARSE_ERROR", None, None)
      [] r.shape = "nonobject" ->
            IF kind = "blender" THEN ErrorEnvelope("INTERNAL_ERROR", None, None)
                                ELSE ErrorEnvelope("PARSE_ERROR", None, None)
      [] ~dispatcher_set ->
            IF kind = "blender"
               THEN ErrorEnvelope("SERVER_NOT_READY", None, ReplyId(r))
               ELSE ErrorEnvelope("SERVER_ERROR", None, ReplyId(r))
      [] OTHER ->
            LET res == ServerDispatch(r.method, r.params) IN
            IF res.kind = "return"
               THEN ResultEnvelope(res.value, ReplyId(r))
               ELSE ErrorEnvelope(ErrorCodeFor(res),
                                  IF res.code \in UntypedExceptions
                                     THEN None ELSE res.detail,
                                  ReplyId(r))

\* what the handler passes to send / sendall for a response
SentBytes(kind, env) ==
    IF kind = "freecad" THEN ToJson(env) \o <<NewlineByte>> ELSE ToJson(env)

\* a connection handler right after accept, its peer about to send stream
HandlerStarted(kind, stream, ds) ==
    /\ serverKind = kind
    /\ dispatcher_set = ds
    /\ closed_by = ""
    /\ instream = stream
    /\ recvpos = 0
    /\ nrecv = 0
    /\ buffer = <<>>
    /\ spc = "recv"
    /\ curline = <<>>
    /\ response = NoEnvelope
    /\ processed = <<>>
    /\ slog = <<>>
    /\ wire = <<>>

ServerInit ==
    \E kind \in {"blender", "freecad"}, stream \in StreamsOf(MaxLines),
       ds \in BOOLEAN :
        HandlerStarted(kind, stream, ds)

\* data = client_socket.recv(BUFFER_SIZE) returned n bytes;
\* buffer += data.decode('utf-8'), or the decode raises
Recv ==
    /\ spc = "recv"
    /\ \E n \in 1..(Len(instream) - recvpos) :
          LET chunk == SubSeq(instream, recvpos + 1, recvpos + n) IN
          /\ IF WellFormed(chunk)
                THEN /\ buffer' = buffer \o Decode(chunk)
                     /\ spc' = "split"
                     /\ wire' = wire
                     /\ closed_by' = closed_by
                ELSE /\ buffer' = buffer
                     /\ spc' = "closed"
                     /\ closed_by' = "error"
                     /\ wire' = IF serverKind = "blender"
                                   THEN wire \o ToJson(ErrorEnvelope(
                                                     "RECEIVE_ERROR", None, None))
                                   ELSE wire
          /\ recvpos' = recvpos + n
    /\ nrecv' = nrecv + 1
    /\ UNCHANGED <<serverKind, dispatcher_set, instream, curline, response,
                   processed, slog>>
    /\ UNCHANGED <<dvars, cvars, xvars>>

\* recv returned b'': the peer has closed; break, close the socket
RecvEof ==
    /\ spc = "recv"
    /\ recvpos = Len(instream)
    /\ spc' = "closed"
    /\ closed_by' = "eof"
    /\ UNCHANGED <<serverKind, dispatcher_set, instream, recvpos, nrecv, buffer,
                   curline, response, processed, slog, wire>>
    /\ UNCHANGED <<dvars, cvars, xvars>>

\* while '\n' in buffer: take the first line; a blank line is skipped
Split ==
    /\ spc = "split"
    /\ IF HasNewline(buffer)
          THEN /\ buffer' = SplitLine(buffer)[2]
               /\ IF IsBlank(SplitLine(buffer)[1])
                     THEN UNCHANGED <<spc, curline>>
                     ELSE /\ curline' = SplitLine(buffer)[1]
                          /\ spc' = "process"
          ELSE /\ spc' = "recv"
               /\ UNCHANGED <<buffer, curline>>
    /\ UNCHANGED <<serverKind, dispatcher_set, closed_by, instream, recvpos,
                   nrecv, response, processed, slog, wire>>
    /\ UNCHANGED <<dvars, cvars, xvars>>

\* response = self._process_message(line)
Process ==
    /\ spc = "process"
    /\ response' = ProcessMessage(serverKind, curline)
    /\ processed' = Append(processed, curline)
    /\ slog' = Append(slog, [ev |-> "process", n |-> Len(processed) + 1])
    /\ spc' = "send"
    /\ UNCHANGED <<serverKind, dispatcher_set, closed_by, instream, recvpos,
                   nrecv, buffer, curline, wire>>
    /\ UNCHANGED <<dvars, cvars, xvars>>

\* client_socket.send(response...) / client_socket.sendall((response + '\n')...)
Send ==
    /\ spc = "send"
    /\ wire' = wire \o SentBytes(serverKind, response)
    /\ slog' = Append(slog, [ev |-> "send", n |-> Len(processed)])
    /\ spc' = "split"
    /\ UNCHANGED <<serverKind, dispatcher_set, closed_by, instream, recvpos,
                   nrecv, buffer, curline, response, processed>>
    /\ UNCHANGED <<dvars, cvars, xvars>>

ServerNext ==
    \/ Recv
    \/ RecvEof
    \/ Split
    \/ Process
    \/ Send



(* ---------------------------------------------------------------------- *)
(* Properties of the connection handler                                    *)
(* ---------------------------------------------------------------------- *)

RECURSIVE CompleteLines(_)
\* the newline-terminated lines of a byte sequence, in order
CompleteLines(bytes) ==
    IF ~HasNewline(bytes) THEN <<>>
    ELSE <<SplitLine(bytes)[1]>> \o CompleteLines(SplitLine(bytes)[2])

NonBlankLine(l) == ~IsBlank(l)

\* the non-blank complete lines among the first n bytes the peer sent, as text
RequestLines(n) ==
    LET ls == CompleteLines(SubSeq(instream, 1, n))
    IN  SelectSeq([i \in 1..Len(ls) |-> Decode(ls[i])], NonBlankLine)

IsPrefix(a, b) == Len(a) <= Len(b) /\ a = SubSeq(b, 1, Len(a))

\* C5: request lines are dispatched in arrival order, and the response to the
\* i-th is written before the (i+1)-th is dispatched
C5_AnsweredInArrivalOrder ==
    /\ IsPrefix(processed, RequestLines(Len(instream)))
    /\ \A i \in 1..Len(slog) :
          /\ slog[i].ev = IF i % 2 = 1 THEN "process" ELSE "send"
          /\ slog[i].n = (i + 1) \div 2
    /\ Len(slog) = 2 * Len(processed) - (IF spc = "send" THEN 1 ELSE 0)

C5_Witness ==
    /\ nrecv = 1
    /\ Len(processed) = 2
    /\ Len(slog) = 4
    /\ processed[1] # processed[2]

\* C6: once a request line is answered, the handler has written exactly one
\* envelope and one newline for it and nothing else: an envelope and a newline
\* per processed line
C6_OneLinePerRequest ==
    spc \in {"recv", "split"} =>
        /\ Len(wire) = 2 * Len(processed)
        /\ \A i \in 1..Len(wire) :
              wire[i].tok = IF i % 2 = 1 THEN "env" ELSE "nl"

\* C7: only complete lines are dispatched, and every complete non-blank line
\* that has arrived is dispatched exactly once, however the bytes were cut
\* into reads
C7_CompleteLinesDispatchedOnce ==
    /\ IsPrefix(processed, RequestLines(recvpos))
    /\ spc = "recv" => processed = RequestLines(recvpos)
    /\ spc = "closed" => processed = RequestLines(recvpos)

IsEnvelope(w) == w.tok = "env"

\* the envelopes written so far, in order: the i-th answers the i-th processed line
Replies == SelectSeq(wire, IsEnvelope)

\* the processed lines that have been answered
Answered == 1..(IF Len(Replies) < Len(processed) THEN Len(Replies) ELSE Len(processed))

\* C11: the envelope written for a line that parsed as a request object carries
\* that request's id, whether it is a Result or an Error of any cause
C11_ReplyEchoesRequestId ==
    \A i \in Answered :
        ParseRequest(processed[i]).shape = "object" =>
            Replies[i].id = ParseRequest(processed[i]).id

C11_Witness ==
    /\ Len(processed) = 2
    /\ Len(Replies) = 2
    /\ Replies[1].status = "error"
    /\ Replies[1].id = "5"
    /\ Replies[2].status = "error"
    /\ Replies[2].id = "2"
    /\ Replies[1].code # Replies[2].code

\* C12: a line that is not a request (malformed JSON, or JSON that is not an
\* object) is answered with PARSE_ERROR and no id, and a handler that ended at
\* the peer's close has processed every line
C12_UnparsableLineGetsParseError ==
    /\ \A i \in Answered :
          ParseRequest(processed[i]).shape # "object" =>
              /\ Replies[i].status = "error"
              /\ Replies[i].code = "PARSE_ERROR"
              /\ Replies[i].id = None
    /\ closed_by = "eof" => processed = RequestLines(Len(instream))

\* C13: a request whose dispatch raised is answered with an Error envelope
\* (the exception's code if typed, EXECUTION_ERROR if not); the handler leaves
\* its loop only at the peer's close or on undecodable bytes, and at the
\* peer's close it has processed every line
C13_DispatchExceptionBecomesError ==
    /\ \A i \in Answered :
          LET r == ParseRequest(processed[i])
              res == ServerDispatch(r.method, r.params)
          IN  (r.shape = "object" /\ dispatcher_set /\ res.kind = "raise") =>
                  /\ Replies[i].status = "error"
                  /\ Replies[i].code = CASE res.code = "TypeError" -> "EXECUTION_ERROR"
                                         [] OTHER -> res.code
    /\ closed_by = "eof" => processed = RequestLines(Len(instream))
    /\ closed_by = "error" => \E j \in 1..Len(instream) : instream[j] = "C3"

C13_Witness ==
    /\ dispatcher_set
    /\ Len(processed) = 2
    /\ Len(Replies) = 2
    /\ Replies[1].code = "EXECUTION_ERROR"
    /\ Replies[2].status = "success"
    /\ closed_by = "eof"

\* the line is a JSON object with no method key
LacksMethod(l) == Strip(l) = <<"N", "}">>

\* C24: a request line without a method field deserializes to method "" and,
\* params being absent too, to empty params; a server whose dispatcher is set
\* answers it with an Error of code METHOD_NOT_FOUND that names method ""
C24_MissingMethodIsMethodNotFound ==
    \A i \in 1..Len(processed) :
        LacksMethod(processed[i]) =>
            /\ ParseRequest(processed[i]).shape = "object"
            /\ ParseRequest(processed[i]).method = ""
            /\ ParseRequest(processed[i]).params = "{}"
            /\ (i \in Answered /\ dispatcher_set) =>
                  /\ Replies[i].status = "error"
                  /\ Replies[i].code = "METHOD_NOT_FOUND"
                  /\ Replies[i].detail = ""

C24_Witness ==
    /\ dispatcher_set
    /\ Len(processed) = 2
    /\ LacksMethod(processed[2])
    /\ Len(Replies) = 2
    /\ Replies[1].status = "success"
    /\ Replies[2].code = "METHOD_NOT_FOUND"


(* ---------------------------------------------------------------------- *)
(* The gateway's ConnectionPool                                            *)
(* ---------------------------------------------------------------------- *)

ClientIds == 1..MaxClients

\* nothing acquired or released yet
NoOperation ==
    [op |-> "none", client |-> 0, pool_before |-> <<>>, live_before |-> {},
     constructed |-> FALSE, disconnected |-> FALSE]

\* a pool as ConnectionPool.__init__ and initialize() leave it
PoolCreated(n) ==
    /\ pool_size = n
    /\ pool = <<>>
    /\ nclients = 0
    /\ is_connected = [c \in ClientIds |-> FALSE]
    /\ held = {}
    /\ last_op = NoOperation

PoolInit == \E n \in 0..MaxPoolSize : PoolCreated(n)

\* the idle clients that are still connected
LiveIdle == {pool[i] : i \in {j \in 1..Len(pool) : is_connected[pool[j]]}}

\* asyncio.Queue.full(): a queue made with maxsize <= 0 is never full
QueueFull(maxsize, q) == maxsize > 0 /\ Len(q) >= maxsize

\* acquire(): get_nowait() gave a client that is connected; it is returned
AcquireIdle ==
    /\ pool # <<>>
    /\ is_connected[Head(pool)]
    /\ pool' = Tail(pool)
    /\ held' = held \cup {Head(pool)}
    /\ last_op' = [op |-> "acquire", client |-> Head(pool), pool_before |-> pool,
                live_before |-> LiveIdle, constructed |-> FALSE,
                disconnected |-> FALSE]
    /\ UNCHANGED <<pool_size, nclients, is_connected>>
    /\ UNCHANGED <<dvars, cvars, svars, avars, rvars, yvars>>

\* acquire(): the queue is empty, or the client get_nowait() gave is not
\* connected (it is dropped); a new client is constructed, connect() is
\* awaited (it may fail) and the client is returned
AcquireNew(ok) ==
    /\ IF pool = <<>> THEN TRUE ELSE ~is_connected[Head(pool)]
    /\ nclients < MaxClients
    /\ pool' = IF pool = <<>> THEN pool ELSE Tail(pool)
    /\ nclients' = nclients + 1
    /\ is_connected' = [is_connected EXCEPT ![nclients + 1] = ok]
    /\ held' = held \cup {nclients + 1}
    /\ last_op' = [op |-> "acquire", client |-> nclients + 1, pool_before |-> pool,
                live_before |-> LiveIdle, constructed |-> TRUE,
                disconnected |-> FALSE]
    /\ UNCHANGED pool_size
    /\ UNCHANGED <<dvars, cvars, svars, avars, rvars, yvars>>

\* release(client): put_nowait, or disconnect on QueueFull
Release(c) ==
    /\ c \in held
    /\ held' = held \ {c}
    /\ IF QueueFull(pool_size, pool)
          THEN /\ is_connected' = [is_connected EXCEPT ![c] = FALSE]
               /\ UNCHANGED pool
          ELSE /\ pool' = Append(pool, c)
               /\ UNCHANGED is_connected
    /\ last_op' = [op |-> "release", client |-> c, pool_before |-> pool,
                live_before |-> LiveIdle, constructed |-> FALSE,
                disconnected |-> QueueFull(pool_size, pool)]
    /\ UNCHANGED <<pool_size, nclients>>
    /\ UNCHANGED <<dvars, cvars, svars, avars, rvars, yvars>>

\* the backend closes a client's connection: is_connected turns False
ConnectionLost(c) ==
    /\ c \in 1..nclients
    /\ is_connected[c]
    /\ is_connected' = [is_connected EXCEPT ![c] = FALSE]
    /\ UNCHANGED <<pool_size, pool, nclients, held, last_op>>
    /\ UNCHANGED <<dvars, cvars, svars, avars, rvars, yvars>>

PoolNext ==
    \/ AcquireIdle
    \/ \E ok \in BOOLEAN : AcquireNew(ok)
    \/ \E c \in ClientIds : Release(c)
    \/ \E c \in ClientIds : ConnectionLost(c)

(* ---------------------------------------------------------------------- *)
(* Properties of the ConnectionPool                                        *)
(* ---------------------------------------------------------------------- *)

\* C15: the pool never holds more idle clients than its capacity, and a client
\* released while the pool holds that many is disconnected, not stored
C15_IdlePoolWithinCapacity ==
    /\ Len(pool) <= pool_size
    /\ (last_op.op = "release" /\ Len(last_op.pool_before) >= pool_size) =>
          /\ last_op.disconnected
          /\ ~is_connected[last_op.client]

\* C16: while an idle client is still connected acquire returns such a client
\* and constructs none; it constructs a client only when no idle client is
\* connected
C16_AcquirePrefersLiveIdle ==
    last_op.op = "acquire" =>
        IF last_op.live_before # {}
           THEN last_op.client \in last_op.live_before /\ ~last_op.constructed
           ELSE last_op.constructed

(* ---------------------------------------------------------------------- *)
(* A socket server's accept loop and its connections                       *)
(* ---------------------------------------------------------------------- *)

ConnIds == 1..MaxConns

\* the socket-level failures a connection handler meets
ConnFailures == {"reset", "peer_close", "failed_send"}

\* a server right after start(): listening, no connection yet
ServerStarted(kind) ==
    /\ akind = kind
    /\ running = TRUE
    /\ accepting = TRUE
    /\ conn = [c \in ConnIds |-> "none"]
    /\ ended_by = [c \in ConnIds |-> None]
    /\ served = [c \in ConnIds |-> 0]
    /\ after_failure = [c \in ConnIds |-> FALSE]
    /\ accept_failed = FALSE

AcceptInit == \E kind \in {"blender", "freecad"} : ServerStarted(kind)

SomeHandlerFailed == \E d \in ConnIds : conn[d] = "ended"

\* a peer connects: the connection waits in the listen backlog
PeerConnect(c) ==
    /\ running
    /\ conn[c] = "none"
    /\ conn' = [conn EXCEPT ![c] = "pending"]
    /\ UNCHANGED <<akind, running, accepting, ended_by, served, after_failure,
                   accept_failed>>
    /\ UNCHANGED <<dvars, cvars, svars, pvars, rvars, yvars>>

\* self.socket.accept() returned the connection; its handler thread starts
Accept(c) ==
    /\ accepting
    /\ conn[c] = "pending"
    /\ conn' = [conn EXCEPT ![c] = "open"]
    /\ after_failure' = [after_failure EXCEPT ![c] = SomeHandlerFailed]
    /\ UNCHANGED <<akind, running, accepting, ended_by, served, accept_failed>>
    /\ UNCHANGED <<dvars, cvars, svars, pvars, rvars, yvars>>

\* self.socket.accept() raised an OSError that is not a timeout. Blender:
\* "except Exception" prints and the loop goes on. FreeCAD: "except OSError:
\* if self.running: raise", and the finally clause calls stop(), which closes
\* every client socket and the listening socket
AcceptError(c) ==
    /\ accepting
    /\ conn[c] = "pending"
    /\ accept_failed' = TRUE
    /\ IF akind = "blender"
          THEN /\ conn' = [conn EXCEPT ![c] = "aborted"]
               /\ UNCHANGED <<running, accepting>>
          ELSE /\ conn' = [d \in ConnIds |->
                              IF d = c THEN "aborted"
                              ELSE IF conn[d] = "open" THEN "killed"
                              ELSE conn[d]]
               /\ running' = FALSE
               /\ accepting' = FALSE
    /\ UNCHANGED <<akind, ended_by, served, after_failure>>
    /\ UNCHANGED <<dvars, cvars, svars, pvars, rvars, yvars>>

\* a handler that lets a socket failure escape and stop the whole server
ConnFailStopsServer(c, cause) ==
    /\ conn[c] = "open"
    /\ conn' = [d \in ConnIds |->
                   IF d = c THEN "ended"
                   ELSE IF conn[d] = "open" THEN "killed" ELSE conn[d]]
    /\ ended_by' = [ended_by EXCEPT ![c] = cause]
    /\ running' = FALSE
    /\ accepting' = FALSE
    /\ UNCHANGED <<akind, served, after_failure, accept_failed>>
    /\ UNCHANGED <<dvars, cvars, svars, pvars, rvars, yvars>>

\* recv() raised ConnectionResetError, recv() returned b'' or send() raised:
\* the handler leaves its loop and closes its own socket
ConnFail(c, cause) ==
    /\ conn[c] = "open"
    /\ conn' = [conn EXCEPT ![c] = "ended"]
    /\ ended_by' = [ended_by EXCEPT ![c] = cause]
    /\ UNCHANGED <<akind, running, accepting, served, after_failure,
                   accept_failed>>
    /\ UNCHANGED <<dvars, cvars, svars, pvars, rvars, yvars>>

\* a request line is received on an open connection and answered
Serve(c) ==
    /\ conn[c] = "open"
    /\ served[c] < MaxServed
    /\ served' = [served EXCEPT ![c] = @ + 1]
    /\ after_failure' = [after_failure EXCEPT ![c] = @ \/ SomeHandlerFailed]
    /\ UNCHANGED <<akind, running, accepting, conn, ended_by, accept_failed>>
    /\ UNCHANGED <<dvars, cvars, svars, pvars, rvars, yvars>>

AcceptNext ==
    \/ \E c \in ConnIds : PeerConnect(c)
    \/ \E c \in ConnIds : Accept(c)
    \/ \E c \in ConnIds : AcceptError(c)
    \/ \E c \in ConnIds, cause \in ConnFailures : ConnFail(c, cause)
    \/ \E c \in ConnIds : Serve(c)

\* C14: a socket-level failure on a connection (reset, peer close, failed
\* send) ends that connection's handler and nothing else: as long as accept()
\* itself has not failed, the accept loop is running and no connection was
\* closed by anything but its own failure, however many handlers have failed
C14_ConnectionFailureIsContained ==
    /\ \A c \in ConnIds : conn[c] = "ended" <=> ended_by[c] \in ConnFailures
    /\ ~accept_failed =>
          /\ running
          /\ accepting
          /\ \A c \in ConnIds : conn[c] \notin {"killed", "aborted"}

C14_Witness ==
    /\ ~accept_failed
    /\ \E c, d, e \in ConnIds :
          /\ conn[c] = "ended"
          /\ conn[d] = "open" /\ served[d] > 0 /\ after_failure[d]
          /\ e # d /\ conn[e] = "open" /\ after_failure[e] /\ served[e] = 0

(* ---------------------------------------------------------------------- *)
(* A socket server being stopped: start, _accept_loop, _handle_client, stop *)
(* ---------------------------------------------------------------------- *)

\* the connections peers make to the server
StopConns == 1..MaxStopConns

\* the thread that calls stop() from outside, and the accept thread, which
\* on FreeCAD calls stop() itself in the finally block of start()
Stoppers == {"caller", "accept"}

\* stop() has returned on the thread that called it from outside
StopReturned == stpc["caller"] = "returned"

\* a server that start() has brought up: listening, running, no connection
StopModelStarted(kind) ==
    /\ stkind = kind
    /\ srv_running = TRUE
    /\ lsock = "open"
    /\ clients = {}
    /\ apc = "check"
    /\ acur = 0
    /\ csock = [c \in StopConns |-> "none"]
    /\ hpc = [c \in StopConns |-> "none"]
    /\ stpc = [w \in Stoppers |-> "idle"]
    /\ nserved = [c \in StopConns |-> FALSE]

StopInit == \E kind \in {"blender", "freecad"} : StopModelStarted(kind)

\* a peer connects: the connection waits in the listen backlog. Connections
\* are numbered in the order they are made
PeerArrives(c) ==
    /\ lsock = "open"
    /\ csock[c] = "none"
    /\ \A d \in 1..(c - 1) : csock[d] # "none"
    /\ csock' = [csock EXCEPT ![c] = "backlog"]
    /\ UNCHANGED <<stkind, srv_running, lsock, clients, apc, acur, hpc, stpc, nserved>>
    /\ UNCHANGED tothers

\* while self.running (FreeCAD: and not self._shutdown_event.is_set())
AcceptLoopTest ==
    /\ apc = "check"
    /\ apc' = IF srv_running THEN "accept"
              ELSE IF stkind = "freecad" THEN "finally" ELSE "done"
    /\ UNCHANGED <<stkind, srv_running, lsock, clients, acur, csock, hpc, stpc, nserved>>
    /\ UNCHANGED tothers

\* self.socket.accept() returns the connection that has waited longest
AcceptReturns(c) ==
    /\ apc = "accept"
    /\ lsock = "open"
    /\ csock[c] = "backlog"
    /\ \A d \in 1..(c - 1) : csock[d] # "backlog"
    /\ csock' = [csock EXCEPT ![c] = "open"]
    /\ acur' = c
    /\ apc' = IF stkind = "blender" THEN "append" ELSE "spawn"
    /\ UNCHANGED <<stkind, srv_running, lsock, clients, hpc, stpc, nserved>>
    /\ UNCHANGED tothers

\* accept() times out after a second (continue), or fails because stop() has
\* closed the socket or set self.socket to None. Blender prints and loops;
\* FreeCAD breaks or re-raises, and either way reaches finally: self.stop()
AcceptRaises ==
    /\ apc = "accept"
    /\ apc' = IF lsock = "open" \/ stkind = "blender" THEN "check" ELSE "finally"
    /\ UNCHANGED <<stkind, srv_running, lsock, clients, acur, csock, hpc, stpc, nserved>>
    /\ UNCHANGED tothers

\* self.clients.append(...): Blender under clients_lock and before the
\* thread starts, FreeCAD with no lock and after the thread has started
ClientsAppend ==
    /\ apc = "append"
    /\ clients' = clients \cup {acur}
    /\ apc' = IF stkind = "blender" THEN "spawn" ELSE "check"
    /\ UNCHANGED <<stkind, srv_running, lsock, acur, csock, hpc, stpc, nserved>>
    /\ UNCHANGED tothers

\* client_thread.start()
SpawnHandler ==
    /\ apc = "spawn"
    /\ hpc' = [hpc EXCEPT ![acur] = "check"]
    /\ apc' = IF stkind = "blender" THEN "check" ELSE "append"
    /\ UNCHANGED <<stkind, srv_running, lsock, clients, acur, csock, stpc, nserved>>
    /\ UNCHANGED tothers

\* finally: self.stop() at the end of FreeCAD's start()
AcceptFinally ==
    /\ apc = "finally"
    /\ stpc["accept"] = "idle"
    /\ stpc' = [stpc EXCEPT !["accept"] = "begin"]
    /\ apc' = "stopping"
    /\ UNCHANGED <<stkind, srv_running, lsock, clients, acur, csock, hpc, nserved>>
    /\ UNCHANGED tothers

\* the accept thread's stop() has returned and start() ends
AcceptThreadEnds ==
    /\ apc = "stopping"
    /\ stpc["accept"] = "returned"
    /\ apc' = "done"
    /\ UNCHANGED <<stkind, srv_running, lsock, clients, acur, csock, hpc, stpc, nserved>>
    /\ UNCHANGED tothers

\* the handler's loop test: while self.running
HandlerLoopTest(c) ==
    /\ hpc[c] = "check"
    /\ hpc' = [hpc EXCEPT ![c] = IF srv_running THEN "recv" ELSE "finally"]
    /\ UNCHANGED <<stkind, srv_running, lsock, clients, apc, acur, csock, stpc, nserved>>
    /\ UNCHANGED tothers

\* recv returns a request, which is processed and answered
HandlerServes(c) ==
    /\ hpc[c] = "recv"
    /\ csock[c] = "open"
    /\ nserved' = [nserved EXCEPT ![c] = TRUE]
    /\ hpc' = [hpc EXCEPT ![c] = "check"]
    /\ UNCHANGED <<stkind, srv_running, lsock, clients, apc, acur, csock, stpc>>
    /\ UNCHANGED tothers

\* a handler that takes a read timeout for an error and leaves its loop
AfterRecvAlwaysEnds(how) == "finally"

\* except socket.timeout: continue, back to the loop test; b'' and every
\* other exception leave the loop
AfterRecv(how) == IF how = "timeout" THEN "check" ELSE "finally"

\* recv times out (continue), or returns b'' or raises (break, or the
\* exception leaves the loop): on a socket stop() has closed it raises
HandlerRecvEnds(c, how) ==
    /\ hpc[c] = "recv"
    /\ how = "raise" \/ csock[c] = "open"
    /\ hpc' = [hpc EXCEPT ![c] = AfterRecv(how)]
    /\ UNCHANGED <<stkind, srv_running, lsock, clients, apc, acur, csock, stpc, nserved>>
    /\ UNCHANGED tothers

\* a handler that leaves its socket open when it ends
HandlerCloseSkipped(c) == csock

\* client_socket.close() in the handler's finally block
HandlerClose(c) == [csock EXCEPT ![c] = "closed"]

\* finally: (Blender: remove the socket from self.clients) close it
HandlerFinally(c) ==
    /\ hpc[c] = "finally"
    /\ clients' = IF stkind = "blender" THEN clients \ {c} ELSE clients
    /\ csock' = HandlerClose(c)
    /\ hpc' = [hpc EXCEPT ![c] = "done"]
    /\ UNCHANGED <<stkind, srv_running, lsock, apc, acur, stpc, nserved>>
    /\ UNCHANGED tothers

\* stop() is called from outside while the server runs
StopCall ==
    /\ stpc["caller"] = "idle"
    /\ srv_running
    /\ stpc' = [stpc EXCEPT !["caller"] = "begin"]
    /\ UNCHANGED <<stkind, srv_running, lsock, clients, apc, acur, csock, hpc, nserved>>
    /\ UNCHANGED tothers

\* self.running = False (FreeCAD: and self._shutdown_event.set())
StopMarks(w) ==
    /\ stpc[w] = "begin"
    /\ srv_running' = FALSE
    /\ stpc' = [stpc EXCEPT ![w] = "close_clients"]
    /\ UNCHANGED <<stkind, lsock, clients, apc, acur, csock, hpc, nserved>>
    /\ UNCHANGED tothers

\* for client in self.clients: client.close(). Blender holds clients_lock
\* and clears the list in the same critical section
StopClosesClients(w) ==
    /\ stpc[w] = "close_clients"
    /\ csock' = [c \in StopConns |-> IF c \in clients THEN "closed" ELSE csock[c]]
    /\ IF stkind = "blender"
          THEN /\ clients' = {}
               /\ stpc' = [stpc EXCEPT ![w] = "close_listen"]
          ELSE /\ clients' = clients
               /\ stpc' = [stpc EXCEPT ![w] = "clear"]
    /\ UNCHANGED <<stkind, srv_running, lsock, apc, acur, hpc, nserved>>
    /\ UNCHANGED tothers

\* self.clients.clear(), on FreeCAD a step of its own with no lock held
StopClears(w) ==
    /\ stpc[w] = "clear"
    /\ clients' = {}
    /\ stpc' = [stpc EXCEPT ![w] = "close_listen"]
    /\ UNCHANGED <<stkind, srv_running, lsock, apc, acur, csock, hpc, nserved>>
    /\ UNCHANGED tothers

\* self.socket.close(); self.socket = None. Connections still in the
\* backlog are reset
StopClosesListener(w) ==
    /\ stpc[w] = "close_listen"
    /\ lsock' = "closed"
    /\ csock' = [c \in StopConns |-> IF csock[c] = "backlog" THEN "refused" ELSE csock[c]]
    /\ stpc' = [stpc EXCEPT ![w] = IF stkind = "blender" THEN "join" ELSE "returned"]
    /\ UNCHANGED <<stkind, srv_running, clients, apc, acur, hpc, nserved>>
    /\ UNCHANGED tothers

\* self.thread.join(timeout=2.0): the accept thread has ended, or two
\* seconds have passed
StopJoins(w) ==
    /\ stpc[w] = "join"
    /\ stpc' = [stpc EXCEPT ![w] = "returned"]
    /\ UNCHANGED <<stkind, srv_running, lsock, clients, apc, acur, csock, hpc, nserved>>
    /\ UNCHANGED tothers

StopNext ==
    \/ \E c \in StopConns : PeerArrives(c)
    \/ AcceptLoopTest
    \/ \E c \in StopConns : AcceptReturns(c)
    \/ AcceptRaises
    \/ ClientsAppend
    \/ SpawnHandler
    \/ AcceptFinally
    \/ AcceptThreadEnds
    \/ \E c \in StopConns : HandlerLoopTest(c)
    \/ \E c \in StopConns : HandlerServes(c)
    \/ \E c \in StopConns, how \in {"timeout", "eof", "raise"} : HandlerRecvEnds(c, how)
    \/ \E c \in StopConns : HandlerFinally(c)
    \/ StopCall
    \/ \E w \in Stoppers : StopMarks(w)
    \/ \E w \in Stoppers : StopClosesClients(w)
    \/ \E w \in Stoppers : StopClears(w)
    \/ \E w \in Stoppers : StopClosesListener(w)
    \/ \E w \in Stoppers : StopJoins(w)

\* the accept thread, the handler threads and the threads inside stop() keep
\* running: accept() and recv() return by their timeouts at the latest
StopFairness ==
    /\ WF_vars(AcceptLoopTest \/ AcceptRaises \/ ClientsAppend \/ SpawnHandler
               \/ AcceptFinally \/ AcceptThreadEnds)
    /\ \A c \in StopConns :
          WF_vars(HandlerLoopTest(c) \/ HandlerFinally(c)
                  \/ HandlerRecvEnds(c, "timeout"))
    /\ \A w \in Stoppers :
          WF_vars(StopMarks(w) \/ StopClosesClients(w) \/ StopClears(w)
                  \/ StopClosesListener(w) \/ StopJoins(w))

(* ---------------------------------------------------------------------- *)
(* Properties of stop()                                                    *)
(* ---------------------------------------------------------------------- *)

\* the connections accept() has returned
Accepted == {c \in StopConns : csock[c] \in {"open", "closed"}}

\* the server is down: not running, not listening, the accept loop left, and
\* every accepted connection closed with its handler ended or never started
ServerDown ==
    /\ ~srv_running
    /\ lsock = "closed"
    /\ apc = "done"
    /\ \A c \in Accepted : csock[c] = "closed"

\* C25: once stop() has returned on a running server the server is marked
\* not running and the listening socket is closed; the accept loop ends, and
\* every connection accepted before or during stop() ends up closed
C25_StopShutsEverythingDown ==
    /\ [](StopReturned => (~srv_running /\ lsock = "closed"))
    /\ (StopReturned ~> ServerDown)

\* stop() has returned and the server is down; one connection had answered a
\* request before it was closed, another was closed before it answered any
C25_Witness ==
    /\ StopReturned
    /\ ServerDown
    /\ \E c \in StopConns : csock[c] = "closed" /\ hpc[c] = "done" /\ nserved[c]
    /\ \E c \in StopConns : csock[c] = "closed" /\ hpc[c] = "done" /\ ~nserved[c]

\* C38: self.clients holds only connections whose handler still runs: once a
\* handler has ended, for whatever reason, its socket is closed and is no
\* longer in the list
C38_ClientsListHoldsLiveHandlers ==
    \A c \in StopConns :
        hpc[c] = "done" => (csock[c] = "closed" /\ c \notin clients)

(* ---------------------------------------------------------------------- *)
(* One connection of a running server: what its handler reads and writes   *)
(* (the connection handler above) and its place in the server               *)
(* ---------------------------------------------------------------------- *)

RECURSIVE StreamsFrom(_, _)
\* the byte streams made of at most n pieces of the given kinds
StreamsFrom(kinds, n) ==
    IF n = 0 THEN {<<>>}
    ELSE StreamsFrom(kinds, n - 1)
            \cup {s \o l : s \in StreamsFrom(kinds, n - 1), l \in kinds}

\* what the peer of the connection sends: requests, lines that are no
\* requests, and the head of a request whose rest is late
IdleStreams ==
    StreamsFrom({PingLine, GarbageLine, BlankLine, Fragment}, MaxLines)

\* the connection the handler above serves: the first one made
IdleConn == CHOOSE c \in StopConns : \A d \in StopConns : c <= d

\* start() has run, accept() has returned the connection, it is listed and
\* its handler thread is inside recv(); the accept thread is back in accept()
ConnectionServed(kind) ==
    /\ stkind = kind
    /\ srv_running = TRUE
    /\ lsock = "open"
    /\ clients = {IdleConn}
    /\ apc = "accept"
    /\ acur = IdleConn
    /\ csock = [c \in StopConns |-> IF c = IdleConn THEN "open" ELSE "none"]
    /\ hpc = [c \in StopConns |-> IF c = IdleConn THEN "recv" ELSE "none"]
    /\ stpc = [w \in Stoppers |-> "idle"]
    /\ nserved = [c \in StopConns |-> FALSE]

\* recv() returns data on the open socket
IdleRecv == hpc[IdleConn] = "recv" /\ csock[IdleConn] = "open" /\ Recv

\* recv() returns b'' on the open socket
IdleRecvEof == hpc[IdleConn] = "recv" /\ csock[IdleConn] = "open" /\ RecvEof

\* recv() raises socket.timeout: nothing arrived within the socket's timeout
IdleTimeout == spc = "recv" /\ HandlerRecvEnds(IdleConn, "timeout")

\* recv() raises on the socket stop() has closed
IdleRecvRaises ==
    spc = "recv" /\ csock[IdleConn] = "closed" /\ HandlerRecvEnds(IdleConn, "raise")

IdleNext ==
    \/ IdleRecv
    \/ IdleRecvEof
    \/ IdleTimeout
    \/ IdleRecvRaises
    \/ Split
    \/ Process
    \/ Send
    \/ HandlerLoopTest(IdleConn)
    \/ HandlerFinally(IdleConn)
    \/ StopCall
    \/ StopMarks("caller")
    \/ StopClosesClients("caller")
    \/ StopClears("caller")
    \/ StopClosesListener("caller")
    \/ StopJoins("caller")

\* recv() on the open socket has ended with no data taken, no end of stream
\* and no error: it has timed out
TimeoutStep ==
    /\ hpc[IdleConn] = "recv"
    /\ csock[IdleConn] = "open"
    /\ hpc'[IdleConn] # "recv"
    /\ spc' = spc

EmptyLine == <<"\n">>

\* what a peer sends that leaves blank lines between its requests
BlankStreams ==
    StreamsFrom({PingLine, MissingLine, BlankLine, EmptyLine}, MaxLines + 1)

\* the line holds nothing but blanks
OnlyBlanks(l) == \A i \in 1..Len(l) : l[i] = " "

\* the handler takes the next line out of its buffer
TakesLine == spc = "split" /\ HasNewline(buffer) /\ buffer' # buffer

\* C40: a line that is empty or holds only blanks is taken out of the buffer
\* and nothing else happens: it is not dispatched and no reply is written.
\* Every other line, whatever came before it, is dispatched as it is and
\* answered by one reply
C40_BlankLineSkipped ==
    /\ [](\A i \in 1..Len(processed) : ~OnlyBlanks(processed[i]))
    /\ [][/\ (TakesLine /\ OnlyBlanks(SplitLine(buffer)[1])) =>
                /\ buffer' = SplitLine(buffer)[2]
                /\ spc' = "split"
                /\ processed' = processed
                /\ response' = response
                /\ wire' = wire
                /\ slog' = slog
          /\ (TakesLine /\ ~OnlyBlanks(SplitLine(buffer)[1])) =>
                /\ buffer' = SplitLine(buffer)[2]
                /\ spc' = "process"
                /\ curline' = SplitLine(buffer)[1]
          /\ spc = "process" =>
                /\ processed' = Append(processed, curline)
                /\ response' = ProcessMessage(serverKind, curline)
          /\ spc = "send" =>
                /\ wire' = wire \o SentBytes(serverKind, response)
                /\ spc' = "split"]_vars

\* an empty line and a line of blanks came first and the request after them
\* has been answered
C40_Witness ==
    /\ Len(CompleteLines(instream)) = 3
    /\ CompleteLines(instream)[1] = <<>>
    /\ CompleteLines(instream)[2] = <<" ">>
    /\ recvpos = Len(instream)
    /\ Len(processed) = 1
    /\ Len(slog) = 2
    /\ spc = "recv"
    /\ wire # <<>>

(* ---------------------------------------------------------------------- *)
(* The gateway's streaming sessions: websocket_blender, websocket_freecad  *)
(* ---------------------------------------------------------------------- *)

\* the WebSocket sessions open at the gateway
Sessions == {"ws1", "ws2"}

\* the "type" of a sub-message; a message without one is a command
SubMessageTypes == {"ping", "execute", "command", "unknown"}

\* the REST handlers of the gateway that are called
Routes == {"create_cube", "blender_health"}

\* no session has been opened and no REST handler called
SessionsParked ==
    /\ kpc = [s \in Sessions |-> "new"]
    /\ kclient = [s \in Sessions |-> 0]
    /\ knext = 0
    /\ kout = [s \in Sessions |-> 0]
    /\ kmsgs = [s \in Sessions |-> 0]
    /\ klog = [s \in Sessions |-> <<>>]
    /\ kactive = {}
    /\ kwriter = [o \in Sessions \cup Routes |-> "none"]
    /\ gpc = [r \in Routes |-> "new"]
    /\ rresult = [r \in Routes |-> "none"]

\* one entry of a session's log: a send_command call, its return, or the
\* relay of its reply, with the client the call was made on
SessionEvent(ev, client) == [ev |-> ev, client |-> client]

\* ConnectionManager.connect: await websocket.accept(); active_connections.add
ManagerConnect(conns, s) == conns \cup {s}

\* a manager that forgets to drop the websocket
ManagerDisconnectSkipped(conns, s) == conns

\* ConnectionManager.disconnect: active_connections.discard(websocket)
ManagerDisconnect(conns, s) == conns \ {s}

\* a client whose disconnect() leaves the stream as it is
WriterLeftOpen(w) == w

\* BaseSocketClient.disconnect(): the writer, if there is one, is closed and
\* self._writer = None, whatever close() or wait_closed() raise
WriterClosed(w) == "none"

\* manager.connect(websocket); client = BlenderClient(...) / FreeCADClient(...)
SessionOpen(s) ==
    /\ kpc[s] = "new"
    /\ kactive' = ManagerConnect(kactive, s)
    /\ knext' = knext + 1
    /\ kclient' = [kclient EXCEPT ![s] = knext + 1]
    /\ kpc' = [kpc EXCEPT ![s] = "connect"]
    /\ UNCHANGED <<kout, kmsgs, klog, kwriter, gpc, rresult>>
    /\ UNCHANGED kothers

\* await client.connect(), which returns False when the backend cannot be
\* reached; await websocket.send_json({"type": "connected"})
SessionConnect(s, ok) ==
    /\ kpc[s] = "connect"
    /\ kwriter' = [kwriter EXCEPT ![s] = IF ok THEN "open" ELSE "none"]
    /\ kpc' = [kpc EXCEPT ![s] = "receive"]
    /\ UNCHANGED <<kclient, knext, kout, kmsgs, klog, kactive, gpc, rresult>>
    /\ UNCHANGED kothers

\* data = await websocket.receive_json(); message_type = data.get("type", "command")
SessionReceive(s, type) ==
    /\ kpc[s] = "receive"
    /\ kmsgs[s] < MaxSubMessages
    /\ kmsgs' = [kmsgs EXCEPT ![s] = @ + 1]
    /\ kpc' = [kpc EXCEPT ![s] = IF type \in {"execute", "command"}
                                    THEN "call" ELSE "reply"]
    /\ UNCHANGED <<kclient, knext, kout, klog, kactive, kwriter,
          gpc, rresult>>
    /\ UNCHANGED kothers

\* a session that starts send_command as a task and goes back to receiving
CallNotAwaited == "receive"

\* response = await client.send_command(method, params): the coroutine is
\* suspended until the call returns
CallAwaited == "awaiting"

\* client.send_command(...) / client.execute_python(code) is called
SessionCall(s) ==
    /\ kpc[s] = "call"
    /\ kout' = [kout EXCEPT ![s] = @ + 1]
    /\ klog' = [klog EXCEPT ![s] = Append(@, SessionEvent("call", kclient[s]))]
    /\ kpc' = [kpc EXCEPT ![s] = CallAwaited]
    /\ UNCHANGED <<kclient, knext, kmsgs, kactive, kwriter, gpc, rresult>>
    /\ UNCHANGED kothers

\* send_command returns its envelope, or raises (except Exception as e). It
\* leaves the client connected (a reply was read) or not (CONNECTION_ERROR
\* after the last attempt's disconnect)
SessionCallEnds(s, how, w) ==
    /\ kpc[s] = "awaiting"
    /\ kout' = [kout EXCEPT ![s] = @ - 1]
    /\ klog' = [klog EXCEPT ![s] = Append(@, SessionEvent(how, kclient[s]))]
    /\ kwriter' = [kwriter EXCEPT ![s] = w]
    /\ kpc' = [kpc EXCEPT ![s] = "relay"]
    /\ UNCHANGED <<kclient, knext, kmsgs, kactive, gpc, rresult>>
    /\ UNCHANGED kothers

\* await websocket.send_json({"type": "command_result", ...}), or the
\* {"type": "error"} message of the except branch
SessionRelay(s) ==
    /\ kpc[s] = "relay"
    /\ klog' = [klog EXCEPT ![s] = Append(@, SessionEvent("relay", kclient[s]))]
    /\ kpc' = [kpc EXCEPT ![s] = "receive"]
    /\ UNCHANGED <<kclient, knext, kout, kmsgs, kactive, kwriter, gpc, rresult>>
    /\ UNCHANGED kothers

\* await websocket.send_json({"type": "pong"}), or the error for an unknown type
SessionReply(s) ==
    /\ kpc[s] = "reply"
    /\ kpc' = [kpc EXCEPT ![s] = "receive"]
    /\ UNCHANGED <<kclient, knext, kout, kmsgs, klog, kactive, kwriter,
          gpc, rresult>>
    /\ UNCHANGED kothers

\* receive_json raises WebSocketDisconnect (break), or a send_json fails:
\* finally: manager.disconnect(websocket); await client.disconnect()
SessionEnds(s) ==
    /\ kpc[s] \in {"receive", "relay", "reply"}
    /\ kactive' = ManagerDisconnect(kactive, s)
    /\ kwriter' = [kwriter EXCEPT ![s] = WriterClosed(@)]
    /\ kpc' = [kpc EXCEPT ![s] = "closed"]
    /\ UNCHANGED <<kclient, knext, kout, kmsgs, klog, gpc, rresult>>
    /\ UNCHANGED kothers

\* what send_command can leave behind: a reply that was read leaves the
\* client connected
WriterAfter(out) == IF out = "result" THEN {"open"} ELSE {"open", "none"}

\* a REST handler is called: client = await get_client() / BlenderClient(...)
RouteOpen(r) ==
    /\ gpc[r] = "new"
    /\ knext' = knext + 1
    /\ gpc' = [gpc EXCEPT ![r] = "call"]
    /\ UNCHANGED <<kpc, kclient, kout, kmsgs, klog, kactive, kwriter, rresult>>
    /\ UNCHANGED kothers

\* the handler's first backend call ends: with a result, with an Error
\* envelope, or by an exception (the caller going away cancels the handler
\* at this await). create_cube returns the result, or extract_result raises
\* HTTPException; blender_health goes on to get_version() when ping() says
\* True, and ping() answers False to an Error envelope and to any exception
RouteCall(r, out, w) ==
    /\ gpc[r] = "call"
    /\ w \in WriterAfter(out)
    /\ kwriter' = [kwriter EXCEPT ![r] = w]
    /\ IF r = "blender_health"
          THEN /\ gpc' = [gpc EXCEPT ![r] = IF out = "result" THEN "version"
                                                              ELSE "finally"]
               /\ rresult' = [rresult EXCEPT ![r] = IF out = "result" THEN @
                                                    ELSE "disconnected"]
          ELSE /\ gpc' = [gpc EXCEPT ![r] = "finally"]
               /\ rresult' = [rresult EXCEPT ![r] =
                      IF out = "result" THEN "success"
                      ELSE IF out = "error" THEN "HTTPException"
                      ELSE "exception"]
    /\ UNCHANGED <<kpc, kclient, knext, kout, kmsgs, klog, kactive>>
    /\ UNCHANGED kothers

\* blender_health: version_response = await client.get_version(); an Error
\* envelope gives the version "unknown", an exception the status "error"
RouteVersion(r, out, w) ==
    /\ gpc[r] = "version"
    /\ w \in WriterAfter(out)
    /\ kwriter' = [kwriter EXCEPT ![r] = w]
    /\ gpc' = [gpc EXCEPT ![r] = "finally"]
    /\ rresult' = [rresult EXCEPT ![r] = IF out = "raise" THEN "error"
                                                         ELSE "connected"]
    /\ UNCHANGED <<kpc, kclient, knext, kout, kmsgs, klog, kactive>>
    /\ UNCHANGED kothers

\* finally: await client.disconnect(), and the handler is left
RouteFinally(r) ==
    /\ gpc[r] = "finally"
    /\ kwriter' = [kwriter EXCEPT ![r] = WriterClosed(@)]
    /\ gpc' = [gpc EXCEPT ![r] = "done"]
    /\ UNCHANGED <<kpc, kclient, knext, kout, kmsgs, klog, kactive, rresult>>
    /\ UNCHANGED kothers

SessionNext ==
    \/ \E s \in Sessions : SessionOpen(s)
    \/ \E s \in Sessions, ok \in BOOLEAN : SessionConnect(s, ok)
    \/ \E s \in Sessions, type \in SubMessageTypes : SessionReceive(s, type)
    \/ \E s \in Sessions : SessionCall(s)
    \/ \E s \in Sessions, how \in {"return", "raise"}, w \in {"open", "none"} :
          SessionCallEnds(s, how, w)
    \/ \E s \in Sessions : SessionRelay(s)
    \/ \E s \in Sessions : SessionReply(s)
    \/ \E s \in Sessions : SessionEnds(s)

\* the session that is followed together with the REST handlers
GatewaySession == "ws1"

\* the outcomes of a backend call
CallOutcomes == {"result", "error", "raise"}

\* one streaming session and the REST handlers
GatewayNext ==
    \/ SessionOpen(GatewaySession)
    \/ \E ok \in BOOLEAN : SessionConnect(GatewaySession, ok)
    \/ \E type \in SubMessageTypes : SessionReceive(GatewaySession, type)
    \/ SessionCall(GatewaySession)
    \/ \E how \in {"return", "raise"}, w \in {"open", "none"} :
          SessionCallEnds(GatewaySession, how, w)
    \/ SessionRelay(GatewaySession)
    \/ SessionReply(GatewaySession)
    \/ SessionEnds(GatewaySession)
    \/ \E r \in Routes : RouteOpen(r)
    \/ \E r \in Routes, out \in CallOutcomes, w \in {"open", "none"} : RouteCall(r, out, w)
    \/ \E r \in Routes, out \in CallOutcomes, w \in {"open", "none"} : RouteVersion(r, out, w)
    \/ \E r \in Routes : RouteFinally(r)

(* ---------------------------------------------------------------------- *)
(* Properties of the streaming sessions                                    *)
(* ---------------------------------------------------------------------- *)

\* C27: within one session every send_command goes to the one client the
\* session created and holds, no other session uses that client, a call is
\* issued only after the previous call has returned and its reply has been
\* relayed, and at most one call of the session is outstanding
C27_SessionCallsOneAtATime ==
    \A s \in Sessions :
        /\ kout[s] <= 1
        /\ \A i \in 1..Len(klog[s]) :
              /\ klog[s][i].client = kclient[s]
              /\ klog[s][i].ev = "call" =>
                    i = 1 \/ klog[s][i - 1].ev = "relay"
              /\ klog[s][i].ev = "relay" =>
                    i > 1 /\ klog[s][i - 1].ev \in {"return", "raise"}
        /\ \A r \in Sessions \ {s} : kclient[s] # 0 => kclient[r] # kclient[s]

C27_Witness ==
    \E s \in Sessions :
        /\ Len(klog[s]) = 6
        /\ klog[s][2].ev = "raise"
        /\ klog[s][4].ev = "call"
        /\ klog[s][6].ev = "relay"
        /\ \E r \in Sessions \ {s} : Len(klog[r]) > 0

\* C39: once an inbound call or a streaming session has ended, on whatever
\* path, the backend client its handler created is disconnected, and the
\* websocket of a finished session is not in the active-connections set
C39_ClientsDisconnectedAtEnd ==
    /\ \A r \in Routes : gpc[r] = "done" => kwriter[r] = "none"
    /\ \A s \in Sessions :
          kpc[s] = "closed" => (kwriter[s] = "none" /\ s \notin kactive)
    /\ \A s \in Sessions : s \in kactive => kpc[s] \notin {"new", "closed"}

\* a session has ended after a call that returned and one that raised;
\* create_cube has ended in an HTTPException and blender_health with the
\* backend connected
C39_Witness ==
    /\ \E s \in Sessions :
          /\ kpc[s] = "closed"
          /\ \E i, j \in 1..Len(klog[s]) :
                klog[s][i].ev = "return" /\ klog[s][j].ev = "raise"
    /\ gpc["create_cube"] = "done" /\ rresult["create_cube"] = "HTTPException"
    /\ gpc["blender_health"] = "done" /\ rresult["blender_health"] = "connected"

(* ---------------------------------------------------------------------- *)
(* The locks of the Blender server's threads                               *)
(* ---------------------------------------------------------------------- *)

\* CommandDispatcher._lock, the mutex inside _command_queue,
\* BlenderSocketServer.clients_lock, and the module's _server_lock
StructureLocks == {"registry", "queue", "clients"}

Locks == StructureLocks \cup {"server"}

\* the accept thread, a connection handler thread, the engine's main thread
\* running the timer callback, and the thread that stops the server
LockThreads == {"accept", "conn", "engine", "stopper"}

Acq(l) == <<"acquire", l>>

Rel(l) == <<"release", l>>

Do(what) == <<"do", what>>

\* what a handler function does about locks: the list_methods handler calls
\* get_dispatcher().list_methods(), the others take no lock
HandlerOps(method) ==
    IF method = "list_methods"
       THEN <<Acq("registry"), Do("keys"), Rel("registry")>>
       ELSE <<Do("handler")>>

\* a dispatch that keeps the registry lock while the handler is executed
DispatchOpsLockKept(m, method) ==
    <<Acq("registry"), Do("get")>>
    \o (IF m = "headless"
           THEN HandlerOps(method)
           ELSE <<Acq("queue"), Do("put"), Rel("queue"), Do("wait")>>)
    \o <<Rel("registry")>>

\* dispatch(): the lookup under self._lock, then _execute_threadsafe with
\* the lock released: the handler inline, or _command_queue.put and the wait
DispatchOps(m, method) ==
    <<Acq("registry"), Do("get"), Rel("registry")>>
    \o (IF m = "headless"
           THEN HandlerOps(method)
           ELSE <<Acq("queue"), Do("put"), Rel("queue"), Do("wait")>>)

\* what each thread does from start to end of one round of its work
ScriptsOf(t, m) ==
    CASE t = "accept" ->
           {<<Do("accept"), Acq("clients"), Do("append"), Rel("clients"), Do("spawn")>>}
      [] t = "conn" ->
           {<<Do("recv")>> \o DispatchOps(m, method) \o <<Do("send")>>
                \o <<Acq("clients"), Do("remove"), Rel("clients"), Do("close")>> :
              method \in {"ping", "list_methods"}}
      [] t = "engine" ->
           {<<Acq("queue"), Do("empty"), Rel("queue"),
              Acq("queue"), Do("get_nowait"), Rel("queue")>>
                \o HandlerOps(method) \o <<Do("set")>> :
              method \in {"ping", "list_methods"}}
      [] OTHER ->
           {<<Acq("server"), Do("running = False"), Acq("clients"), Do("close all"),
              Rel("clients"), Do("close listener"), Do("join"), Rel("server")>>}

\* the add-on loaded: no lock is held, no thread has begun
LocksInit(m) ==
    /\ lmode = m
    /\ lowner = [l \in Locks |-> "nobody"]
    /\ lscript = [t \in LockThreads |-> <<>>]
    /\ lruns = [t \in LockThreads |-> 0]
    /\ lheld = [t \in LockThreads |-> {}]

\* a thread begins a round of its work
LockBegin(t) ==
    /\ lscript[t] = <<>>
    /\ lruns[t] < MaxRounds
    /\ \E sc \in ScriptsOf(t, lmode) : lscript' = [lscript EXCEPT ![t] = sc]
    /\ lruns' = [lruns EXCEPT ![t] = @ + 1]
    /\ UNCHANGED <<lmode, lowner, lheld>>
    /\ UNCHANGED lothers

\* with lock: the lock is free and the thread takes it
LockAcquire(t) ==
    /\ lscript[t] # <<>>
    /\ Head(lscript[t])[1] = "acquire"
    /\ lowner[Head(lscript[t])[2]] = "nobody"
    /\ lowner' = [lowner EXCEPT ![Head(lscript[t])[2]] = t]
    /\ lheld' = [lheld EXCEPT ![t] = @ \cup {Head(lscript[t])[2]}]
    /\ lscript' = [lscript EXCEPT ![t] = Tail(@)]
    /\ UNCHANGED <<lmode, lruns>>
    /\ UNCHANGED lothers

\* the end of a with block
LockRelease(t) ==
    /\ lscript[t] # <<>>
    /\ Head(lscript[t])[1] = "release"
    /\ lowner' = [lowner EXCEPT ![Head(lscript[t])[2]] = "nobody"]
    /\ lheld' = [lheld EXCEPT ![t] = @ \ {Head(lscript[t])[2]}]
    /\ lscript' = [lscript EXCEPT ![t] = Tail(@)]
    /\ UNCHANGED <<lmode, lruns>>
    /\ UNCHANGED lothers

\* a statement that takes and releases no lock
LockFreeStep(t) ==
    /\ lscript[t] # <<>>
    /\ Head(lscript[t])[1] = "do"
    /\ lscript' = [lscript EXCEPT ![t] = Tail(@)]
    /\ UNCHANGED <<lmode, lowner, lruns, lheld>>
    /\ UNCHANGED lothers

LocksNext ==
    \/ \E t \in LockThreads : LockBegin(t)
    \/ \E t \in LockThreads : LockAcquire(t)
    \/ \E t \in LockThreads : LockRelease(t)
    \/ \E t \in LockThreads : LockFreeStep(t)

(* ---------------------------------------------------------------------- *)
(* Properties of the locks                                                 *)
(* ---------------------------------------------------------------------- *)

\* the thread's next statement is an acquire
Wants(t) ==
    IF lscript[t] # <<>> /\ Head(lscript[t])[1] = "acquire"
       THEN {Head(lscript[t])[2]} ELSE {}

\* the thread waits for a lock that is taken
Blocked(t) == \E l \in Wants(t) : lowner[l] # "nobody"

\* C28: no thread holds the locks of two of the shared structures (registry,
\* pending-command queue, connections list), none asks for one while it holds
\* another, and no thread waits for a lock whose holder is waiting too
C28_NoNestedStructureLocks ==
    \A t \in LockThreads :
        /\ Cardinality(lheld[t] \cap StructureLocks) <= 1
        /\ (Wants(t) \cap StructureLocks # {}) => lheld[t] \cap StructureLocks = {}
        /\ \A l \in Wants(t) :
              lowner[l] # "nobody" => ~Blocked(lowner[l])

\* the thread's next statement
NextOp(t) == IF lscript[t] = <<>> THEN Do("nothing") ELSE Head(lscript[t])

\* C36: the registry lock is held for one access to the registry only (the
\* lookup of dispatch, the keys of list_methods) and never while a handler
\* runs, a command is queued or a result is awaited: a thread never asks for
\* a lock it holds itself, so a handler that calls list_methods goes
\* through, and a thread that waits for the registry lock waits for a holder
\* that is not waiting and is about to release it
C36_RegistryLockNotHeldInHandler ==
    \A t \in LockThreads :
        /\ "registry" \in lheld[t] =>
              NextOp(t) \in {Do("get"), Do("keys"), Rel("registry")}
        /\ NextOp(t) \in {Do("handler"), Do("put"), Do("wait")} =>
              "registry" \notin lheld[t]
        /\ Wants(t) \cap lheld[t] = {}
        /\ ("registry" \in Wants(t) /\ Blocked(t)) =>
              /\ lowner["registry"] # t
              /\ ~Blocked(lowner["registry"])

\* the handler thread, inside dispatch in headless mode, has entered the
\* list_methods handler and holds the registry lock again for its keys,
\* while the timer thread runs a handler of its own
C36_Witness ==
    /\ lmode = "headless"
    /\ lowner["registry"] = "conn"
    /\ NextOp("conn") = Do("keys")
    /\ NextOp("engine") = Do("handler")

\* the stopping thread waits for clients_lock, which the handler thread holds
\* after a dispatch that took the registry lock and then the queue's
C28_Witness ==
    /\ lmode = "gui"
    /\ Blocked("stopper")
    /\ lowner["clients"] = "conn"
    /\ lheld["accept"] = {}
    /\ lruns["engine"] = 1
    /\ lscript["engine"] = <<>>

(* ---------------------------------------------------------------------- *)
(* A dispatcher's registry under concurrent calls                          *)
(* ---------------------------------------------------------------------- *)

RThreads == {"t1", "t2"}

\* "ping" is registered at startup; "extra" is registered and unregistered later
RMethods == {"extra", "ping"}

\* two handler functions registered under "extra"
RHandlers == {"h1", "h2"}

\* the position of a method name in sorted order
AlphaRank(m) == IF m = "extra" THEN 1 ELSE 2

\* dict.get(method)
Get(reg, m) ==
    IF \E i \in 1..Len(reg) : reg[i].method = m
       THEN reg[CHOOSE i \in 1..Len(reg) : reg[i].method = m].handler
       ELSE None

\* a registry that keeps the handler a method already has (dict.setdefault)
PutKeepsFirst(reg, m, h) ==
    IF Get(reg, m) # None THEN reg ELSE Append(reg, [method |-> m, handler |-> h])

\* self._handlers[method] = handler: an existing key keeps its place
Put(reg, m, h) ==
    IF Get(reg, m) # None
       THEN [i \in 1..Len(reg) |->
                IF reg[i].method = m THEN [method |-> m, handler |-> h] ELSE reg[i]]
       ELSE Append(reg, [method |-> m, handler |-> h])

RECURSIVE Del(_, _)
\* del self._handlers[method]
Del(reg, m) ==
    IF reg = <<>> THEN <<>>
    ELSE IF Head(reg).method = m THEN Tail(reg)
    ELSE <<Head(reg)>> \o Del(Tail(reg), m)

\* list(self._handlers.keys())
Keys(reg) == [i \in 1..Len(reg) |-> reg[i].method]

RECURSIVE Sorted(_)
\* sorted(names)
Sorted(names) ==
    IF names = <<>> THEN <<>>
    ELSE LET i == CHOOSE j \in 1..Len(names) :
                      \A k \in 1..Len(names) : AlphaRank(names[j]) <= AlphaRank(names[k])
         IN  <<names[i]>> \o
             Sorted([k \in 1..(Len(names) - 1) |->
                        IF k < i THEN names[k] ELSE names[k + 1]])

RCall(op, m, h) == [op |-> op, method |-> m, handler |-> h]

\* the calls threads make; the FreeCAD dispatcher has no unregister
RCalls(kind) ==
    {RCall("register", "extra", h) : h \in RHandlers}
    \cup {RCall("dispatch", m, None) : m \in RMethods}
    \cup {RCall("list_methods", None, None)}
    \cup (IF kind = "blender" THEN {RCall("unregister", "extra", None)} ELSE {})

\* a dispatcher after the built-in handlers were registered
RegistryStarted(kind) ==
    /\ rkind = kind
    /\ registry = <<[method |-> "ping", handler |-> "ping"]>>
    /\ rlock = None
    /\ rpc = [t \in RThreads |-> "idle"]
    /\ rop = [t \in RThreads |-> RCall("none", None, None)]
    /\ nops = 0
    /\ hist = <<>>

RegistryInit == \E kind \in {"blender", "freecad"} : RegistryStarted(kind)

\* one completed registry access
Access(t, found, listed, raised, post) ==
    [thread |-> t, op |-> rop[t].op, method |-> rop[t].method,
     handler |-> rop[t].handler, found |-> found, listed |-> listed,
     raised |-> raised, pre |-> registry, post |-> post,
     guarded |-> (rlock = t)]

\* a thread calls register, unregister, list_methods or dispatch. Blender's
\* methods start with "with self._lock"; FreeCAD's touch self.handlers at once
RBegin(t, call) ==
    /\ rpc[t] = "idle"
    /\ nops < MaxOps
    /\ call \in RCalls(rkind)
    /\ nops' = nops + 1
    /\ rop' = [rop EXCEPT ![t] = call]
    /\ rpc' = [rpc EXCEPT ![t] = IF rkind = "blender" THEN "enter" ELSE "access"]
    /\ UNCHANGED <<rkind, registry, rlock, hist>>
    /\ UNCHANGED <<dvars, cvars, svars, pvars, avars, yvars>>

\* with self._lock: the lock is free and the thread takes it
RAcquire(t) ==
    /\ rpc[t] = "enter"
    /\ rlock = None
    /\ rlock' = t
    /\ rpc' = [rpc EXCEPT ![t] = "access"]
    /\ UNCHANGED <<rkind, registry, rop, nops, hist>>
    /\ UNCHANGED <<dvars, cvars, svars, pvars, avars, yvars>>

\* where a thread goes after its access
AfterAccess == IF rkind = "blender" THEN "release" ELSE "idle"

\* the statement that reads or writes the dict; for unregister, the test
\* "if method in self._handlers"
RAccess(t) ==
    /\ rpc[t] = "access"
    /\ LET m == rop[t].method
           h == rop[t].handler
       IN  CASE rop[t].op = "register" ->
                  /\ registry' = Put(registry, m, h)
                  /\ hist' = Append(hist, Access(t, None, <<>>, FALSE,
                                                 Put(registry, m, h)))
                  /\ rpc' = [rpc EXCEPT ![t] = AfterAccess]
             [] rop[t].op = "dispatch" ->
                  /\ hist' = Append(hist, Access(t, Get(registry, m), <<>>,
                                                 FALSE, registry))
                  /\ rpc' = [rpc EXCEPT ![t] = AfterAccess]
                  /\ UNCHANGED registry
             [] rop[t].op = "list_methods" ->
                  /\ hist' = Append(hist,
                         Access(t, None,
                                IF rkind = "blender" THEN Keys(registry)
                                                     ELSE Sorted(Keys(registry)),
                                FALSE, registry))
                  /\ rpc' = [rpc EXCEPT ![t] = AfterAccess]
                  /\ UNCHANGED registry
             [] OTHER ->
                  IF Get(registry, m) # None
                     THEN /\ rpc' = [rpc EXCEPT ![t] = "delete"]
                          /\ UNCHANGED <<registry, hist>>
                     ELSE /\ hist' = Append(hist, Access(t, None, <<>>, FALSE,
                                                         registry))
                          /\ rpc' = [rpc EXCEPT ![t] = AfterAccess]
                          /\ UNCHANGED registry
    /\ UNCHANGED <<rkind, rlock, rop, nops>>
    /\ UNCHANGED <<dvars, cvars, svars, pvars, avars, yvars>>

\* del self._handlers[method], after the test found the method
RDelete(t) ==
    /\ rpc[t] = "delete"
    /\ registry' = Del(registry, rop[t].method)
    /\ hist' = Append(hist, Access(t, None, <<>>,
                                   Get(registry, rop[t].method) = None,
                                   Del(registry, rop[t].method)))
    /\ rpc' = [rpc EXCEPT ![t] = AfterAccess]
    /\ UNCHANGED <<rkind, rlock, rop, nops>>
    /\ UNCHANGED <<dvars, cvars, svars, pvars, avars, yvars>>

\* the end of the with block
RRelease(t) ==
    /\ rpc[t] = "release"
    /\ rlock' = IF rlock = t THEN None ELSE rlock
    /\ rpc' = [rpc EXCEPT ![t] = "idle"]
    /\ UNCHANGED <<rkind, registry, rop, nops, hist>>
    /\ UNCHANGED <<dvars, cvars, svars, pvars, avars, yvars>>

RegistryNext ==
    \/ \E t \in RThreads, call \in RCalls("blender") : RBegin(t, call)
    \/ \E t \in RThreads : RAcquire(t)
    \/ \E t \in RThreads : RAccess(t)
    \/ \E t \in RThreads : RDelete(t)
    \/ \E t \in RThreads : RRelease(t)

(* ---------------------------------------------------------------------- *)
(* Properties of the registry                                              *)
(* ---------------------------------------------------------------------- *)

\* C19: every read and write of the registry is made by a thread that holds
\* the registry mutex, on the Blender and on the FreeCAD dispatcher, and no
\* access finds the registry changed under it
C19_RegistryAccessUnderMutex ==
    \A i \in 1..Len(hist) : hist[i].guarded /\ ~hist[i].raised

\* the last register or unregister of hist[j].method before access j, or 0
LastMutation(j) ==
    LET earlier == {i \in 1..(j - 1) :
                       /\ hist[i].op \in {"register", "unregister"}
                       /\ hist[i].method = hist[j].method}
    IN  IF earlier = {} THEN 0
        ELSE CHOOSE i \in earlier : \A k \in earlier : k <= i

IsSorted(names) ==
    \A i \in 1..(Len(names) - 1) : AlphaRank(names[i]) < AlphaRank(names[i + 1])

\* C21: list_methods() returns the names of exactly the registered methods,
\* in sorted order, whatever the order of registration, on both dispatchers
C21_ListMethodsSorted ==
    \A j \in 1..Len(hist) :
        hist[j].op = "list_methods" =>
            /\ {hist[j].listed[i] : i \in 1..Len(hist[j].listed)}
                  = {hist[j].pre[i].method : i \in 1..Len(hist[j].pre)}
            /\ Len(hist[j].listed) = Len(hist[j].pre)
            /\ IsSorted(hist[j].listed)

(* ---------------------------------------------------------------------- *)
(* Specifications                                                          *)
(* ---------------------------------------------------------------------- *)

(* ---------------------------------------------------------------------- *)
(* The headless launcher: main() of start_server.py and signal_handler,    *)
(* which Python runs on the main thread, on top of whatever main() is doing *)
(* ---------------------------------------------------------------------- *)

\* main() has started the server and is about to test its loop condition
LauncherStarted ==
    /\ launcher_running = TRUE
    /\ inst_running = TRUE
    /\ server_lock_held = FALSE
    /\ mpc = "test"
    /\ sigframes = <<>>
    /\ nsignals = 0
    /\ nsleeps = 0

\* SIGINT or SIGTERM arrives: signal_handler is entered on the main thread
\* and main(), or the handler frame it interrupts, goes on only after it
\* has returned
Signal ==
    /\ mpc # "exited"
    /\ nsignals < MaxSignals
    /\ nsignals' = nsignals + 1
    /\ sigframes' = Append(sigframes, "set_flag")
    /\ UNCHANGED <<launcher_running, inst_running, server_lock_held, mpc, nsleeps>>
    /\ UNCHANGED uothers

\* the innermost frame of signal_handler
Top == sigframes[Len(sigframes)]

\* the innermost frame moves on
TopTo(where) == [sigframes EXCEPT ![Len(sigframes)] = where]

\* _running = False
HandlerSetsFlag ==
    /\ sigframes # <<>>
    /\ Top = "set_flag"
    /\ launcher_running' = FALSE
    /\ sigframes' = TopTo("acquire")
    /\ UNCHANGED <<inst_running, server_lock_held, mpc, nsignals, nsleeps>>
    /\ UNCHANGED uothers

\* with _server_lock: threading.Lock is taken only when nobody holds it,
\* whichever thread asks
Acquirable(taken) == ~taken

\* server.stop(): with _server_lock
HandlerAcquires ==
    /\ sigframes # <<>>
    /\ Top = "acquire"
    /\ Acquirable(server_lock_held)
    /\ server_lock_held' = TRUE
    /\ sigframes' = TopTo("stop")
    /\ UNCHANGED <<launcher_running, inst_running, mpc, nsignals, nsleeps>>
    /\ UNCHANGED uothers

\* if _server_instance: _server_instance.stop()
HandlerStops ==
    /\ sigframes # <<>>
    /\ Top = "stop"
    /\ inst_running' = FALSE
    /\ sigframes' = TopTo("release")
    /\ UNCHANGED <<launcher_running, server_lock_held, mpc, nsignals, nsleeps>>
    /\ UNCHANGED uothers

\* the with block ends and signal_handler returns
HandlerReturns ==
    /\ sigframes # <<>>
    /\ Top = "release"
    /\ server_lock_held' = FALSE
    /\ sigframes' = SubSeq(sigframes, 1, Len(sigframes) - 1)
    /\ UNCHANGED <<launcher_running, inst_running, mpc, nsignals, nsleeps>>
    /\ UNCHANGED uothers

\* while _running and ...
LoopTestsFlag ==
    /\ sigframes = <<>>
    /\ mpc = "test"
    /\ mpc' = IF launcher_running THEN "acquire" ELSE "finally"
    /\ UNCHANGED <<launcher_running, inst_running, server_lock_held, sigframes,
                   nsignals, nsleeps>>
    /\ UNCHANGED uothers

\* server.is_running(): with _server_lock
IsRunningAcquires ==
    /\ sigframes = <<>>
    /\ mpc = "acquire"
    /\ Acquirable(server_lock_held)
    /\ server_lock_held' = TRUE
    /\ mpc' = "read"
    /\ UNCHANGED <<launcher_running, inst_running, sigframes, nsignals, nsleeps>>
    /\ UNCHANGED uothers

\* return _server_instance is not None and _server_instance.running
IsRunningReads ==
    /\ sigframes = <<>>
    /\ mpc = "read"
    /\ mpc' = IF inst_running THEN "release_true" ELSE "release_false"
    /\ UNCHANGED <<launcher_running, inst_running, server_lock_held, sigframes,
                   nsignals, nsleeps>>
    /\ UNCHANGED uothers

\* the with block of is_running() ends; the loop goes on or is left
IsRunningReleases ==
    /\ sigframes = <<>>
    /\ mpc \in {"release_true", "release_false"}
    /\ server_lock_held' = FALSE
    /\ mpc' = IF mpc = "release_true" THEN "sleep" ELSE "finally"
    /\ UNCHANGED <<launcher_running, inst_running, sigframes, nsignals, nsleeps>>
    /\ UNCHANGED uothers

\* time.sleep(0.5)
Sleeps ==
    /\ sigframes = <<>>
    /\ mpc = "sleep"
    /\ nsleeps' = IF nsleeps < MaxSleeps THEN nsleeps + 1 ELSE nsleeps
    /\ mpc' = "test"
    /\ UNCHANGED <<launcher_running, inst_running, server_lock_held, sigframes,
                   nsignals>>
    /\ UNCHANGED uothers

\* finally: server.stop(): with _server_lock
FinallyAcquires ==
    /\ sigframes = <<>>
    /\ mpc = "finally"
    /\ Acquirable(server_lock_held)
    /\ server_lock_held' = TRUE
    /\ mpc' = "stopping"
    /\ UNCHANGED <<launcher_running, inst_running, sigframes, nsignals, nsleeps>>
    /\ UNCHANGED uothers

\* if _server_instance: _server_instance.stop()
FinallyStops ==
    /\ sigframes = <<>>
    /\ mpc = "stopping"
    /\ inst_running' = FALSE
    /\ mpc' = "finally_release"
    /\ UNCHANGED <<launcher_running, server_lock_held, sigframes, nsignals, nsleeps>>
    /\ UNCHANGED uothers

\* the with block ends, "Server shutdown complete", main() returns
FinallyReleases ==
    /\ sigframes = <<>>
    /\ mpc = "finally_release"
    /\ server_lock_held' = FALSE
    /\ mpc' = "exited"
    /\ UNCHANGED <<launcher_running, inst_running, sigframes, nsignals, nsleeps>>
    /\ UNCHANGED uothers

\* what the main thread does by itself
MainThreadStep ==
    \/ HandlerSetsFlag
    \/ HandlerAcquires
    \/ HandlerStops
    \/ HandlerReturns
    \/ LoopTestsFlag
    \/ IsRunningAcquires
    \/ IsRunningReads
    \/ IsRunningReleases
    \/ Sleeps
    \/ FinallyAcquires
    \/ FinallyStops
    \/ FinallyReleases

LauncherNext ==
    \/ Signal
    \/ HandlerSetsFlag
    \/ HandlerAcquires
    \/ HandlerStops
    \/ HandlerReturns
    \/ LoopTestsFlag
    \/ IsRunningAcquires
    \/ IsRunningReads
    \/ IsRunningReleases
    \/ Sleeps
    \/ FinallyAcquires
    \/ FinallyStops
    \/ FinallyReleases

\* the main thread runs whenever it can
LauncherFairness == WF_vars(MainThreadStep)

\* the frame that runs on the main thread waits for _server_lock, which a
\* frame below it on the same thread holds
WaitsForOwnLock ==
    /\ server_lock_held
    /\ IF sigframes # <<>> THEN Top = "acquire"
                           ELSE mpc \in {"acquire", "finally"}

\* C37: whenever a shutdown signal is delivered, the main thread never waits
\* for the global server lock while it holds that lock itself, and the
\* signal leads to the server stopped and main() left
C37_SignalLeadsToShutdown ==
    /\ [](~WaitsForOwnLock)
    /\ ((nsignals > 0) ~> (mpc = "exited" /\ ~inst_running))

\* the parts that follow the first six, each as created
LaterParked ==
    /\ WireParked
    /\ StopModelStarted("blender")
    /\ SessionsParked
    /\ LocksInit("headless")
    /\ LauncherStarted

\* the dispatcher alone: the client stays as created
InitDispatch ==
    /\ DispatchInit
    /\ ClientCreated(DefaultRetryAttempts, "listening", "blender")
    /\ HandlerStarted("blender", <<>>, TRUE)
    /\ PoolCreated(1)
    /\ ServerStarted("blender")
    /\ RegistryStarted("blender")
    /\ LaterParked

SpecDispatch == InitDispatch /\ [][DispatchNext]_vars

\* the dispatcher of a GUI host alone
InitTimer ==
    /\ DispatcherStarted("gui")
    /\ ClientCreated(DefaultRetryAttempts, "listening", "blender")
    /\ HandlerStarted("blender", <<>>, TRUE)
    /\ PoolCreated(1)
    /\ ServerStarted("blender")
    /\ RegistryStarted("blender")
    /\ LaterParked

\* the connection handler whose calls cross to the main thread
TimerCaller == "conn1"

\* one connection is open; the main thread runs operators of its own and
\* the timer callback
TimerNext ==
    \/ \E t \in {TimerCaller, MainThread}, r \in Requests : Dispatch(t, r)
    \/ ExecuteInline(MainThread)
    \/ InlineReturn(MainThread)
    \/ Enqueue(TimerCaller)
    \/ WaitSignalled(TimerCaller)
    \/ WaitTimeout(TimerCaller)
    \/ ReadError(TimerCaller)
    \/ ReadResult(TimerCaller)
    \/ Tick
    \/ TickGet
    \/ TickStore
    \/ TickSet
    \/ TickReturn

\* bpy.app.timers calls the callback again 0.01 s after each return, and
\* what the main thread runs returns
TimerFairness ==
    /\ WF_vars(Tick \/ TickGet \/ TickStore \/ TickSet \/ TickReturn)
    /\ WF_vars(ExecuteInline(MainThread) \/ InlineReturn(MainThread))

SpecTimer == InitTimer /\ [][TimerNext]_vars /\ TimerFairness

\* one connection thread and the main thread on a host started in any mode;
\* the connection makes one call more than the main thread, so that two of
\* its commands can be queued at once
CallsThreads == {TimerCaller, MainThread}

CallsNext ==
    \/ \E r \in Requests : DispatchWithin(TimerCaller, r, MaxCalls + 1)
    \/ \E r \in Requests : Dispatch(MainThread, r)
    \/ \E t \in CallsThreads : ExecuteInline(t)
    \/ \E t \in CallsThreads : InlineReturn(t)
    \/ \E t \in CallsThreads : Enqueue(t)
    \/ \E t \in CallsThreads : WaitSignalled(t)
    \/ \E t \in CallsThreads : WaitTimeout(t)
    \/ \E t \in CallsThreads : ReadError(t)
    \/ \E t \in CallsThreads : ReadResult(t)
    \/ Tick
    \/ TickGet
    \/ TickStore
    \/ TickSet
    \/ TickReturn

SpecCalls == InitDispatch /\ [][CallsNext]_vars

\* the client alone: the dispatcher stays as started
InitClient ==
    /\ ClientInit
    /\ DispatcherStarted("headless")
    /\ HandlerStarted("blender", <<>>, TRUE)
    /\ PoolCreated(1)
    /\ ServerStarted("blender")
    /\ RegistryStarted("blender")
    /\ LaterParked

SpecClient == InitClient /\ [][ClientNext]_vars

\* one connection handler; the dispatcher it calls runs handlers inline
InitServer ==
    /\ ServerInit
    /\ DispatcherStarted("headless")
    /\ ClientCreated(DefaultRetryAttempts, "listening", "blender")
    /\ PoolCreated(1)
    /\ ServerStarted("blender")
    /\ RegistryStarted("blender")
    /\ LaterParked

SpecServer == InitServer /\ [][ServerNext]_vars

\* one ConnectionPool
InitPool ==
    /\ PoolInit
    /\ DispatcherStarted("headless")
    /\ ClientCreated(DefaultRetryAttempts, "listening", "blender")
    /\ HandlerStarted("blender", <<>>, TRUE)
    /\ ServerStarted("blender")
    /\ RegistryStarted("blender")
    /\ LaterParked

SpecPool == InitPool /\ [][PoolNext]_vars

\* one server's accept loop and connections
InitAccept ==
    /\ AcceptInit
    /\ DispatcherStarted("headless")
    /\ ClientCreated(DefaultRetryAttempts, "listening", "blender")
    /\ HandlerStarted("blender", <<>>, TRUE)
    /\ PoolCreated(1)
    /\ RegistryStarted("blender")
    /\ LaterParked

SpecAccept == InitAccept /\ [][AcceptNext]_vars

\* one dispatcher's registry and the threads calling into it
InitRegistry ==
    /\ RegistryInit
    /\ DispatcherStarted("headless")
    /\ ClientCreated(DefaultRetryAttempts, "listening", "blender")
    /\ HandlerStarted("blender", <<>>, TRUE)
    /\ PoolCreated(1)
    /\ ServerStarted("blender")
    /\ LaterParked

SpecRegistry == InitRegistry /\ [][RegistryNext]_vars

\* the six parts above, each as created
EarlierParked ==
    /\ DispatcherStarted("headless")
    /\ ClientCreated(DefaultRetryAttempts, "listening", "blender")
    /\ HandlerStarted("blender", <<>>, TRUE)
    /\ PoolCreated(1)
    /\ ServerStarted("blender")
    /\ RegistryStarted("blender")

\* envelopes through the wire protocol
InitWire ==
    /\ WireInit
    /\ EarlierParked
    /\ StopModelStarted("blender")
    /\ SessionsParked
    /\ LocksInit("headless")
    /\ LauncherStarted

SpecWire == InitWire /\ [][WireNext]_vars

\* a server being stopped, its threads scheduled fairly
InitStop ==
    /\ StopInit
    /\ EarlierParked
    /\ WireParked
    /\ SessionsParked
    /\ LocksInit("headless")
    /\ LauncherStarted

SpecStop == InitStop /\ [][StopNext]_vars /\ StopFairness

\* the gateway's streaming sessions
InitSession ==
    /\ SessionsParked
    /\ EarlierParked
    /\ WireParked
    /\ StopModelStarted("blender")
    /\ LocksInit("headless")
    /\ LauncherStarted

SpecSession == InitSession /\ [][SessionNext]_vars

\* the Blender add-on's threads and locks, headless or with the GUI
InitLocks ==
    /\ \E m \in {"headless", "gui"} : LocksInit(m)
    /\ LauncherStarted
    /\ EarlierParked
    /\ WireParked
    /\ StopModelStarted("blender")
    /\ SessionsParked

SpecLocks == InitLocks /\ [][LocksNext]_vars

\* one connection of a running server of either kind
InitIdle ==
    /\ \E kind \in {"blender", "freecad"}, stream \in IdleStreams :
          /\ HandlerStarted(kind, stream, TRUE)
          /\ ConnectionServed(kind)
    /\ DispatcherStarted("headless")
    /\ ClientCreated(DefaultRetryAttempts, "listening", "blender")
    /\ PoolCreated(1)
    /\ ServerStarted("blender")
    /\ RegistryStarted("blender")
    /\ WireParked
    /\ SessionsParked
    /\ LocksInit("headless")
    /\ LauncherStarted

SpecIdle == InitIdle /\ [][IdleNext]_vars

\* the headless launcher alone
InitLauncher ==
    /\ LauncherStarted
    /\ EarlierParked
    /\ WireParked
    /\ StopModelStarted("blender")
    /\ SessionsParked
    /\ LocksInit("headless")

SpecLauncher == InitLauncher /\ [][LauncherNext]_vars /\ LauncherFairness

\* one streaming session and the gateway's REST handlers
InitGateway == InitSession

SpecGateway == InitGateway /\ [][GatewayNext]_vars

\* one connection whose peer sends blank lines between its requests
InitBlank ==
    /\ \E kind \in {"blender", "freecad"}, stream \in BlankStreams :
          HandlerStarted(kind, stream, TRUE)
    /\ DispatcherStarted("headless")
    /\ ClientCreated(DefaultRetryAttempts, "listening", "blender")
    /\ PoolCreated(1)
    /\ ServerStarted("blender")
    /\ RegistryStarted("blender")
    /\ LaterParked

SpecBlank == InitBlank /\ [][ServerNext]_vars

====
